---- MODULE Spec2Model ----
(***************************************************************************)
(* Daily feature panel of gas-balance-risk: the interval expander          *)
(* (_build_stress_from_notices), the frequency aligner                     *)
(* (_weekly_to_daily_ffill) and the panel builder (build_model_frame) of   *)
(* src/models/features/build_model_frame.py, fed by the frames the loaders *)
(* of src/data/mongo.py return.                                            *)
(*                                                                         *)
(* Time is discrete: an instant is a number of ticks since the start of    *)
(* day 0, TicksPerDay ticks make one calendar day; a date is a day number. *)
(* A data frame is the sequence of its rows; the frame the loader returns  *)
(* for an empty result (no rows, no columns) is the empty sequence.        *)
(***************************************************************************)
EXTENDS Integers, Sequences, FiniteSets, TLC

VARIABLES
    pc,            \* the call in progress: "weather", "hh", "storage", "stress",
                   \* "cap", "assemble"; then "done" or "raised"
    failed,        \* the call that raised, "" when none did
    notices,       \* the notice frame (of load_notices_df in the panel builder)
    daily,         \* the exploded notice frame of _build_stress_from_notices
    stress_daily,  \* result of _build_stress_from_notices
    storage_w,     \* frame returned by load_storage_weekly
    storage_d,     \* result of _weekly_to_daily_ffill
    weather_src,   \* frame returned by load_noaa_region_daily
    weather,       \* _ensure_daily_index(weather)
    hh_src,        \* frame returned by load_henry_hub_daily
    hh,            \* _ensure_daily_index(hh)
    cap,           \* frame returned by load_capacity_df
    cap_feat,      \* daily median of All_Qty_Avail
    df,            \* the panel build_model_frame returns, which the fit routines read
    routine,       \* the fit routine in progress: "stress", "vol", "" when none
    d_fit,         \* d, the working frame of the fit routine, column by column
    feature_cols,  \* the names of the lagged predictor columns
    standardized,  \* the columns handed to a standardization routine so far
    Xs,            \* the design vectors, by predictor
    y_obs,         \* y, the target vector
    scalers,       \* the Scaler {mean, std} the fit routine returns, by predictor
    x_raw,         \* x, the forecast point: raw value by feature
    post,          \* idata.posterior: one vector of draws per variable name
    prob_threshold,\* prob_threshold (stress event) or threshold (volatility)
    feat_val,      \* feat_val by feature with a coefficient: standardized or raw
    logit_p,       \* logit_p (stress event) or mu (volatility), one per draw
    nu,            \* the tail parameter used for t, one per draw
    t_samp,        \* t, the standard_t draws
    samp,          \* p_samp (stress event) or y_samp (volatility)
    prob,          \* prob_alert or prob_exceed, as a fraction num / den
    first_eval,    \* what a first evaluation returned, once the forecast has
                   \* been evaluated again with the same inputs
    cfg,           \* cfg.start and cfg.end of ModelFrameConfig, as days
    stored,        \* the documents of the notices collection
    sink,          \* the sink writing to the collection: "storage", "hh_spot",
                   \* "weather", "items"
    collection,    \* the documents of the sink's collection, with their _id
    written,       \* the keys the sink has written so far
    last_write     \* the last write: its document and whether it returned

vars == <<pc, failed, notices, daily, stress_daily, storage_w, storage_d,
          weather_src, weather, hh_src, hh, cap, cap_feat, df,
          routine, d_fit, feature_cols, standardized, Xs, y_obs, scalers,
          x_raw, post, prob_threshold, feat_val, logit_p, nu, t_samp, samp, prob,
          first_eval, cfg, stored, sink, collection, written, last_write>>

loadVars == <<cfg, stored>>

sinkVars == <<sink, collection, written, last_write>>

forecastVars == <<x_raw, post, prob_threshold, feat_val, logit_p, nu, t_samp, samp, prob,
                  first_eval>>

fitVars == <<routine, d_fit, feature_cols, standardized, Xs, y_obs, scalers>>

sources == <<notices, storage_w, weather_src, hh_src, cap, loadVars, sinkVars>>

(* ------------------------------ bounds --------------------------------- *)
MaxDay == 1            \* last day of the notices' instants
MaxNotices == 2        \* rows of the notice frame
MaxIds == 2            \* distinct notice ids
MaxCalendarDay == 3    \* last day of the dates of the daily and weekly sources
MaxWeekly == 3         \* rows of the weekly storage frame
MaxValue == 2          \* largest observed storage value
MaxWeather == 3        \* rows of the weather frame
MaxPrices == 2         \* rows of the price frame
MaxStorage == 2        \* rows of the weekly storage frame of the panel
MaxCap == 2            \* rows of the capacity frame
MaxQty == 1            \* largest All_Qty_Avail, in units of QtyStep
MaxPriceDay == 2       \* last day of the calendar of the price features
MaxLogPrice == 2       \* largest price, as a power of two
MaxFitRows == 3        \* rows of the panel handed to a fit routine
MaxFeature == 3        \* largest value of a feature of that panel

(* --------------------------- time and nulls ---------------------------- *)
TicksPerDay == 2
NaT == -1          \* missing timestamp (None / NaT)
Malformed == -2    \* a timestamp text that does not parse
NaN == -9          \* missing number

Days == 0 .. MaxDay
Instants == 0 .. ((MaxDay + 1) * TicksPerDay - 1)
RawTimestamps == Instants \cup {NaT, Malformed}
CalendarDays == 0 .. MaxCalendarDay
Midnight(d) == d * TicksPerDay

\* the values the "critical" field of a stored notice takes: a boolean, a
\* null, the notices spider's "Y" / "N" marker, or no field at all
CriticalValues == {"True", "False", "None", "Y", "N", "Missing"}

Raised == [status |-> "raised", rows |-> <<>>]
Returned(rows) == [status |-> "ok", rows |-> rows]

SetMin(S) == CHOOSE x \in S : \A y \in S : x <= y
SetMax(S) == CHOOSE x \in S : \A y \in S : y <= x

(* ------------------------- interval expander --------------------------- *)
\* pd.to_datetime(..., utc=True, errors="coerce")
ToDatetimeCoerce(x) == IF x >= 0 THEN x ELSE NaT

\* Series.fillna(other)
FillNa(a, b) == IF a = NaT THEN b ELSE a

\* Series.dt.floor("D"): the day an instant falls in; NaT stays NaT
FloorDay(t) == IF t = NaT THEN NaT ELSE t \div TicksPerDay

\* effective_dt after the coercion and the fallback to posted_dt
EffectiveDt(n) == FillNa(ToDatetimeCoerce(n.effective_dt), ToDatetimeCoerce(n.posted_dt))

\* (mutant) the open end falls back to posted_dt instead of effective_dt
EndDtFromPosted(n) == FillNa(ToDatetimeCoerce(n.end_dt), ToDatetimeCoerce(n.posted_dt))

\* end_dt after the coercion and the fallback to effective_dt
EndDt(n) == FillNa(ToDatetimeCoerce(n.end_dt), EffectiveDt(n))

StartDate(n) == FloorDay(EffectiveDt(n))
EndDate(n) == FloorDay(EndDt(n))

\* pd.date_range(s, e, freq="D") raises ValueError when s or e is NaT
DateRangeRaises(s, e) == s = NaT \/ e = NaT

\* (mutant) the range leaves its last day out
DateRangeHalfOpen(s, e) == s .. (e - 1)

\* pd.date_range(s, e, freq="D") otherwise: the days s..e, none when e < s
DateRange(s, e) == s .. e

\* daily["critical"].fillna(False).astype(bool): a non-empty string is True
CriticalAsBool(c) == c \notin {"None", "Missing", "False"}

RowsOf(frame) == {frame[i] : i \in 1 .. Len(frame)}

\* n.explode("date_range"): one row per (notice row, day of its range); a
\* notice with an empty range keeps one row whose date is missing
ExplodeRange(i, range) ==
    IF range = {} THEN {[row |-> i, date |-> NaT]}
    ELSE {[row |-> i, date |-> d] : d \in range}

Explode(frame) ==
    UNION {ExplodeRange(i, DateRange(StartDate(frame[i]), EndDate(frame[i]))) : i \in 1 .. Len(frame)}

\* the rows of one group of daily.groupby("date"); a missing date forms no group
Group(exploded, d) == {r \in exploded : r.date = d}

GroupKeys(exploded) == {r.date : r \in exploded} \ {NaT}

\* notice_active_count=("notice_id", "nunique")
NUnique(frame, g) == Cardinality({frame[r.row].notice_id : r \in g})

\* critical_active=("critical", "max") over the booleans of the group
MaxCritical(frame, g) == \E r \in g : CriticalAsBool(frame[r.row].critical)

\* (mutant) the indicator is not derived from the flag
AsZero(b) == 0

\* out["stress_event"] = out["critical_active"].astype(int)
AsInt(b) == IF b THEN 1 ELSE 0

Aggregate(frame, exploded) ==
    [d \in GroupKeys(exploded) |->
        [notice_active_count |-> NUnique(frame, Group(exploded, d)),
         critical_active |-> MaxCritical(frame, Group(exploded, d)),
         stress_event |-> AsInt(MaxCritical(frame, Group(exploded, d)))]]

\* the frame has no "critical" column when no stored notice has the field:
\* daily.get("critical", False) is then the default False, which has no fillna
CriticalColumnAbsent(frame) == \A n \in RowsOf(frame) : n.critical = "Missing"

BuildStressRaises(frame) ==
    /\ Len(frame) > 0
    /\ \/ \E n \in RowsOf(frame) : DateRangeRaises(StartDate(n), EndDate(n))
       \/ CriticalColumnAbsent(frame)

BuildStressFromNotices(frame) ==
    IF Len(frame) = 0 THEN Returned(<<>>)
    ELSE IF BuildStressRaises(frame) THEN Raised
    ELSE Returned(Aggregate(frame, Explode(frame)))

(* ------------------------- frequency aligner --------------------------- *)
\* w.dropna(subset=[date_col]): the rows whose date parsed
DropNaDate(frame) == SelectSeq(frame, LAMBDA r : r.date # NaT)

\* the index after set_index(date_col)
IndexDates(frame) == {frame[i].date : i \in 1 .. Len(frame)}

HasDuplicateDates(frame) ==
    \E i, j \in 1 .. Len(frame) : i # j /\ frame[i].date = frame[j].date

\* pd.date_range(NaT, NaT) raises when no date parsed; reindex raises on a
\* duplicated index label
WeeklyToDailyRaises(weekly) ==
    /\ Len(weekly) > 0
    /\ \/ Len(DropNaDate(weekly)) = 0
       \/ HasDuplicateDates(DropNaDate(weekly))

\* w.reindex(daily_index): the value observed on day d, missing when none is
Reindex(w, d) ==
    IF \E i \in 1 .. Len(w) : w[i].date = d
    THEN (CHOOSE r \in RowsOf(w) : r.date = d).working_gas_bcf
    ELSE NaN

\* Series.ffill(): a missing value takes the last value that is not missing
RECURSIVE FFillFrom(_, _, _)
FFillFrom(values, i, last) ==
    IF i > Len(values) THEN <<>>
    ELSE LET v == IF values[i] = NaN THEN last ELSE values[i]
         IN <<v>> \o FFillFrom(values, i + 1, v)

\* (mutant) a backward fill: a missing value takes the next value that is not missing
RECURSIVE BFillFrom(_, _, _)
BFillFrom(values, i, next) ==
    IF i < 1 THEN <<>>
    ELSE LET v == IF values[i] = NaN THEN next ELSE values[i]
         IN BFillFrom(values, i - 1, v) \o <<v>>

BFill(values) == BFillFrom(values, Len(values), NaN)

FFill(values) == FFillFrom(values, 1, NaN)

WeeklyToDailyFfill(weekly) ==
    IF Len(weekly) = 0 THEN Returned(weekly)
    ELSE IF WeeklyToDailyRaises(weekly) THEN Raised
    ELSE LET w == DropNaDate(weekly)
             lo == SetMin(IndexDates(w))
             hi == SetMax(IndexDates(w))
             reindexed == [i \in 1 .. (hi - lo + 1) |-> Reindex(w, lo + i - 1)]
             filled == FFill(reindexed)
         IN Returned([i \in 1 .. (hi - lo + 1) |->
                        [date |-> lo + i - 1, working_gas_bcf |-> filled[i]]])

(* --------------------------- panel builder ----------------------------- *)
\* insertion of a row into a frame ascending by date, after the rows of its date
RECURSIVE InsertByDate(_, _)
InsertByDate(sorted, row) ==
    IF Len(sorted) = 0 THEN <<row>>
    ELSE IF row.date < Head(sorted).date THEN <<row>> \o sorted
    ELSE <<Head(sorted)>> \o InsertByDate(Tail(sorted), row)

\* df.sort_values("date").reset_index(drop=True)
RECURSIVE SortValuesByDate(_)
SortValuesByDate(rows) ==
    IF Len(rows) = 0 THEN <<>>
    ELSE InsertByDate(SortValuesByDate(SubSeq(rows, 1, Len(rows) - 1)), rows[Len(rows)])

\* df[date_col] raises KeyError on the frame without columns
EnsureDailyIndexRaises(frame) == Len(frame) = 0

\* the k-th smallest of a set of dates
KthDate(dates, k) == CHOOSE d \in dates : Cardinality({e \in dates : e < d}) = k - 1

\* (mutant) no drop_duplicates: every row with a date is kept
EnsureDailyIndexKeepAll(frame) == {SortValuesByDate(DropNaDate(frame))}

\* _ensure_daily_index: the dates that fail to parse are dropped, the rows are
\* sorted by date and one row per date is kept.  sort_values uses quicksort,
\* which leaves the order of rows with equal dates open, so keep="last" keeps
\* any one of them: every outcome is a result.
EnsureDailyIndexResults(frame) ==
    LET valid == {i \in 1 .. Len(frame) : frame[i].date # NaT}
        dates == {frame[i].date : i \in valid}
        kept == {c \in [dates -> valid] : \A d \in dates : frame[c[d]].date = d}
    IN {[k \in 1 .. Cardinality(dates) |-> frame[c[KthDate(dates, k)]]] : c \in kept}

\* the rows of the right frame that match a date
MatchRows(right, d) == SelectSeq(right, LAMBDA r : r.date = d)

\* left.merge(right, on="date", how="left"): every left row, in order, once
\* per matching right row, or once without a match
RECURSIVE LeftMergeFrom(_, _, _)
LeftMergeFrom(left, right, i) ==
    IF i > Len(left) THEN <<>>
    ELSE LET m == MatchRows(right, left[i].date)
         IN (IF Len(m) = 0
             THEN <<[left |-> left[i], matched |-> FALSE, right |-> left[i]]>>
             ELSE [k \in 1 .. Len(m) |-> [left |-> left[i], matched |-> TRUE, right |-> m[k]]])
            \o LeftMergeFrom(left, right, i + 1)

\* (mutant) an inner join: the left rows without a match are dropped
InnerMerge(left, right) ==
    SelectSeq(LeftMergeFrom(left, right, 1), LAMBDA p : p.matched)

LeftMerge(left, right) == LeftMergeFrom(left, right, 1)

\* out.sort_values("date") of the stress signal, as a frame
StressFrame(signal) ==
    LET dates == DOMAIN signal.rows
    IN [k \in 1 .. Cardinality(dates) |->
          [date |-> KthDate(dates, k),
           notice_active_count |-> signal.rows[KthDate(dates, k)].notice_active_count,
           critical_active |-> signal.rows[KthDate(dates, k)].critical_active,
           stress_event |-> signal.rows[KthDate(dates, k)].stress_event]]

\* insertion of a number into an ascending sequence
RECURSIVE InsertSorted(_, _)
InsertSorted(sorted, x) ==
    IF Len(sorted) = 0 THEN <<x>>
    ELSE IF x < Head(sorted) THEN <<x>> \o sorted
    ELSE <<Head(sorted)>> \o InsertSorted(Tail(sorted), x)

RECURSIVE SortNumbers(_)
SortNumbers(values) ==
    IF Len(values) = 0 THEN <<>>
    ELSE InsertSorted(SortNumbers(Tail(values)), Head(values))

\* Series.median(): missing values are skipped, none left gives a missing median
Median(values) ==
    LET present == SortNumbers(SelectSeq(values, LAMBDA v : v # NaN))
        n == Len(present)
    IN IF n = 0 THEN NaN
       ELSE IF n % 2 = 1 THEN present[(n + 1) \div 2]
       ELSE (present[n \div 2] + present[n \div 2 + 1]) \div 2

\* the capacity feature: per day of Post_Date_dt, the median of All_Qty_Avail;
\* a frame with its two columns and no row when capacity loaded empty
CapFeat(frame) ==
    LET valid == SelectSeq(frame, LAMBDA r : ToDatetimeCoerce(r.Post_Date_dt) # NaT)
        dates == {FloorDay(valid[i].Post_Date_dt) : i \in 1 .. Len(valid)}
        group(d) == SelectSeq(valid, LAMBDA r : FloorDay(r.Post_Date_dt) = d)
        qty(d) == [i \in 1 .. Len(group(d)) |-> group(d)[i].All_Qty_Avail]
    IN [k \in 1 .. Cardinality(dates) |->
          [date |-> KthDate(dates, k),
           all_qty_avail_median |-> Median(qty(KthDate(dates, k)))]]

\* base = weather[[...]]: the weather columns of the panel, the others not yet joined
BaseRow(w) ==
    [date |-> w.date, hdd_mean |-> w.hdd_mean, henry_hub_usd_per_mmbtu |-> NaN,
     working_gas_bcf |-> NaN, notice_active_count |-> NaN, critical_active |-> NaN,
     stress_event |-> NaN, all_qty_avail_median |-> NaN, hh_log |-> NaN, hh_ret |-> NaN]

Base(w) == [i \in 1 .. Len(w) |-> BaseRow(w[i])]

JoinValue(p, v) == IF p.matched THEN v ELSE NaN

MergePrice(left, right) ==
    LET j == LeftMerge(left, right)
    IN [k \in 1 .. Len(j) |->
          [j[k].left EXCEPT !.henry_hub_usd_per_mmbtu =
                                JoinValue(j[k], j[k].right.henry_hub_usd_per_mmbtu)]]

\* if not storage_d.empty: merge; otherwise the frame is left as it is
MergeStorage(left, right) ==
    IF Len(right) = 0 THEN left
    ELSE LET j == LeftMerge(left, right)
         IN [k \in 1 .. Len(j) |->
               [j[k].left EXCEPT !.working_gas_bcf =
                                     JoinValue(j[k], j[k].right.working_gas_bcf)]]

\* the boolean critical_active is carried as 1 / 0 (True == 1), a null as NaN
MergeStress(left, right) ==
    LET j == LeftMerge(left, right)
    IN [k \in 1 .. Len(j) |->
          [j[k].left EXCEPT
              !.notice_active_count = JoinValue(j[k], j[k].right.notice_active_count),
              !.critical_active =
                  IF j[k].matched THEN AsInt(j[k].right.critical_active) ELSE NaN,
              !.stress_event = JoinValue(j[k], j[k].right.stress_event)]]

MergeCapacity(left, right) ==
    LET j == LeftMerge(left, right)
    IN [k \in 1 .. Len(j) |->
          [j[k].left EXCEPT !.all_qty_avail_median =
                                JoinValue(j[k], j[k].right.all_qty_avail_median)]]

\* (mutant) no fill: a null stays null
FillNaKeep(v) == v

\* (mutant) diff(-1): the row after minus the row, missing on the last row
DiffForward(rows, k) ==
    IF k = Len(rows) \/ rows[k].hh_log = NaN \/ rows[k + 1].hh_log = NaN THEN NaN
    ELSE rows[k + 1].hh_log - rows[k].hh_log

\* Series.fillna(0)
FillNaZero(v) == IF v = NaN THEN 0 ELSE v

\* (mutant) the capacity aggregate is filled with zero as well
FillStressAndCapacity(rows) ==
    [k \in 1 .. Len(rows) |->
        [rows[k] EXCEPT !.notice_active_count = FillNaZero(@),
                        !.critical_active = FillNaZero(@),
                        !.stress_event = FillNaZero(@),
                        !.all_qty_avail_median = FillNaZero(@)]]

\* for col in the three stress columns: df[col] = df[col].fillna(0)
FillStress(rows) ==
    [k \in 1 .. Len(rows) |->
        [rows[k] EXCEPT !.notice_active_count = FillNaZero(@),
                        !.critical_active = FillNaZero(@),
                        !.stress_event = FillNaZero(@)]]

\* the logarithm, on the integer prices of the model: the whole part of log2
RECURSIVE Log2(_)
Log2(x) == IF x <= 1 THEN 0 ELSE 1 + Log2(x \div 2)

\* np.log(x.replace(0, np.nan)): missing for a missing, zero or negative price
Log(x) == IF x = NaN \/ x <= 0 THEN NaN ELSE Log2(x)

\* Series.diff(): the row minus the row before it, missing on the first row
\* and wherever one of the two is missing
Diff(rows, k) ==
    IF k = 1 \/ rows[k].hh_log = NaN \/ rows[k - 1].hh_log = NaN THEN NaN
    ELSE rows[k].hh_log - rows[k - 1].hh_log

DerivePrice(rows) ==
    LET logged == [k \in 1 .. Len(rows) |->
                      [rows[k] EXCEPT !.hh_log = Log(rows[k].henry_hub_usd_per_mmbtu)]]
    IN [k \in 1 .. Len(logged) |-> [logged[k] EXCEPT !.hh_ret = Diff(logged, k)]]

BaseColumns == {"date", "hdd_mean"}
StressColumns == {"notice_active_count", "critical_active", "stress_event"}

\* the columns of the panel: working_gas_bcf is joined only when the daily
\* storage frame has rows
PanelColumns(storage) ==
    BaseColumns \cup {"henry_hub_usd_per_mmbtu"}
        \cup (IF Len(storage) = 0 THEN {} ELSE {"working_gas_bcf"})
        \cup StressColumns \cup {"all_qty_avail_median", "hh_log", "hh_ret"}

\* the merges, the fill of the stress columns, the derived price features and
\* the final sort of build_model_frame
Assemble(w, prices, storage, signal, capacity) ==
    [columns |-> PanelColumns(storage),
     rows |-> SortValuesByDate(DerivePrice(FillStress(
                  MergeCapacity(
                      MergeStress(
                          MergeStorage(MergePrice(Base(w), prices), storage),
                          StressFrame(signal)),
                      capacity))))]

\* merge raises ValueError on the key columns datetime64 and object when both
\* frames have no row: a calendar without a row meets the frame that stands
\* for no notice, or for no capacity, whose columns carry no type (a frame
\* with rows on one side only is joined without the check)
AssembleRaises(w, noticeFrame, capacityFrame) ==
    /\ Len(w) = 0
    /\ \/ Len(noticeFrame) = 0
       \/ Len(capacityFrame) = 0

NoPanel == [columns |-> {}, rows |-> <<>>]

(* --------------------------- standardization --------------------------- *)
\* eps of zscore; the features of the model are whole numbers of eps
Eps == 1

RECURSIVE SumSeq(_)
SumSeq(xs) == IF Len(xs) = 0 THEN 0 ELSE Head(xs) + SumSeq(Tail(xs))

RECURSIVE SumSqSeq(_)
SumSqSeq(xs) == IF Len(xs) = 0 THEN 0 ELSE Head(xs) * Head(xs) + SumSqSeq(Tail(xs))

\* the mean S / n of numbers, NaN without any
MeanOf(xs) ==
    IF Len(xs) = 0 THEN [kind |-> "nan", S |-> 0, n |-> 0]
    ELSE [kind |-> "mean", S |-> SumSeq(xs), n |-> Len(xs)]

\* the standard deviation (ddof = 0) of numbers: sqrt(V) / n, where
\* V = n * (sum of squares) - (sum)^2; NaN without any
StdOf(xs) ==
    IF Len(xs) = 0 THEN [kind |-> "nan", V |-> 0, n |-> 0]
    ELSE [kind |-> "sd", V |-> Len(xs) * SumSqSeq(xs) - SumSeq(xs) * SumSeq(xs), n |-> Len(xs)]

\* the values of a column that are not null
NonNull(values) == SelectSeq(values, LAMBDA v : v # NaN)

\* np.nanmean
NanMean(values) == MeanOf(NonNull(values))

\* np.nanstd (ddof = 0)
NanStd(values) == StdOf(NonNull(values))

\* the standard deviation 1.0
One == [kind |-> "one", V |-> 0, n |-> 0]

StdIsZero(sd) == sd.kind = "sd" /\ sd.V = 0
StdIsNaN(sd) == sd.kind = "nan"

\* std_ > eps: sqrt(V) / n > eps; a NaN is not above eps
StdAboveEps(sd) == sd.kind = "sd" /\ sd.V > (Eps * sd.n) * (Eps * sd.n)

\* a standardized value (x - mean) / std, kept as its numerator dev = n * x - S
\* over n * std; a null
ZNaN == [kind |-> "nan", dev |-> 0, n |-> 0, std |-> One]
ZZero == [kind |-> "z", dev |-> 0, n |-> 1, std |-> One]

\* (x - mean) / std
Standardize(x, mean, sd) ==
    IF x = NaN \/ mean.kind = "nan" \/ sd.kind = "nan" THEN ZNaN
    ELSE [kind |-> "z", dev |-> mean.n * x - mean.S, n |-> mean.n, std |-> sd]

\* (mutant) the standard deviation is kept as computed
StdKept(sd) == sd

\* std_ = std_ if std_ > eps else 1.0
StdFloored(sd) == IF StdAboveEps(sd) THEN sd ELSE One

\* zscore(s) of standardize.py, called without mean_ and std_
ZScore(values) ==
    LET mean == NanMean(values)
        sd == StdFloored(NanStd(values))
    IN [z |-> [k \in DOMAIN values |-> Standardize(values[k], mean, sd)],
        mean |-> mean, std |-> sd]

(* -------------------- fit of the stress-event model -------------------- *)
\* Series.shift(1)
Shift(values) == [k \in DOMAIN values |-> IF k = 1 THEN NaN ELSE values[k - 1]]

\* (mutant) no shift: the value of the same row
ShiftNone(values) == values

Column(rows, c) == [k \in 1 .. Len(rows) |-> rows[k][c]]

\* "hdd_median" if it is a column, else "hdd_mean" if it is one
HddCol(columns) ==
    IF "hdd_median" \in columns THEN "hdd_median"
    ELSE IF "hdd_mean" \in columns THEN "hdd_mean" ELSE "none"

\* predictors (choose what exists): the lagged columns and their sources
StressPredictors(columns) ==
    (IF HddCol(columns) # "none"
     THEN <<[name |-> "hdd_lag1", source |-> HddCol(columns)]>> ELSE <<>>)
    \o (IF "working_gas_bcf" \in columns
        THEN <<[name |-> "storage_lag1", source |-> "working_gas_bcf"]>> ELSE <<>>)
    \o (IF "all_qty_avail_median" \in columns
        THEN <<[name |-> "cap_avail_lag1", source |-> "all_qty_avail_median"]>> ELSE <<>>)
    \o (IF "notice_active_count" \in columns
        THEN <<[name |-> "notices_lag1", source |-> "notice_active_count"]>> ELSE <<>>)

Names(predictors) == [k \in DOMAIN predictors |-> predictors[k].name]

Range(seq) == {seq[k] : k \in DOMAIN seq}

\* KeyError without stress_event, astype(int) of a null stress_event,
\* ValueError without any predictor
FitStressRaises(panel) ==
    \/ "stress_event" \notin panel.columns
    \/ \E k \in DOMAIN panel.rows : panel.rows[k].stress_event = NaN
    \/ Len(StressPredictors(panel.columns)) = 0

\* d after the lags: date, the target y and one column per predictor
StressLagged(panel) ==
    LET rows == SortValuesByDate(panel.rows)
        preds == StressPredictors(panel.columns)
        source(c) == (CHOOSE q \in Range(preds) : q.name = c).source
    IN [c \in {"date", "y"} \cup Range(Names(preds)) |->
          IF c = "date" THEN Column(rows, "date")
          ELSE IF c = "y" THEN Column(rows, "stress_event")
          ELSE Shift(Column(rows, source(c)))]

\* the k-th smallest of a set of row numbers
KthRow(keep, k) == CHOOSE i \in keep : Cardinality({j \in keep : j < i}) = k - 1

\* the columns whose values are standardized values
ZColumns == {"storage_z", "storage_z_lag1"}

IsNullAt(frame, c, k) ==
    IF c \in ZColumns THEN frame[c][k].kind = "nan" ELSE frame[c][k] = NaN

\* (mutant) only a null target drops the row
DropNaTarget(frame, subset) ==
    LET keep == {k \in DOMAIN frame["date"] : ~IsNullAt(frame, "y", k)}
    IN [c \in DOMAIN frame |->
          [k \in 1 .. Cardinality(keep) |-> frame[c][KthRow(keep, k)]]]

\* d.dropna(subset=...): the rows without a null in a column of the subset
DropNa(frame, subset) ==
    LET keep == {k \in DOMAIN frame["date"] : \A c \in subset : ~IsNullAt(frame, c, k)}
    IN [c \in DOMAIN frame |->
          [k \in 1 .. Cardinality(keep) |-> frame[c][KthRow(keep, k)]]]


(* ------------------- fit of the volatility-risk model ------------------ *)
\* the windows of the rolling features
StressWindow == 7
HddWindow == 5

\* the rolling mean of hdd is kept as RollScale times its value, a whole
\* number for every count of values in the window
RollScale == 60

\* _zscore_series(s): zeros when the standard deviation is zero or NaN, and
\* then the standard deviation it returns is 1.0 only for a NaN
ZScoreSeries(values) ==
    LET mean == NanMean(values)
        sd == NanStd(values)
    IN IF StdIsZero(sd) \/ StdIsNaN(sd)
       THEN [z |-> [k \in DOMAIN values |-> ZZero], mean |-> mean,
             std |-> IF StdIsNaN(sd) THEN One ELSE sd]
       ELSE [z |-> [k \in DOMAIN values |-> Standardize(values[k], mean, sd)],
             mean |-> mean, std |-> sd]

\* the float sum of three or more equal values need not be a multiple of the
\* value (0.1 + 0.1 + 0.1 is not 3 * 0.1): the mean of a constant column then
\* differs from the constant by a rounding error, far below eps, and so does
\* the standard deviation from zero
RoundingErrors == {0 - 1, 0, 1}
MinRounded == 3

\* a standard deviation that is a rounding error: not zero, not above eps
Tiny == [kind |-> "tiny", V |-> 0, n |-> 0]

\* _zscore_series(s) in floats, where the mean comes out with the rounding
\* error err: on a constant column sd is a rounding error, which is neither
\* 0 nor NaN, and (s - mu) / sd is -1 or +1 in every position
ZScoreSeriesRounded(values, err) ==
    IF err # 0 /\ Len(NonNull(values)) >= MinRounded /\ StdIsZero(NanStd(values))
    THEN [z |-> [k \in DOMAIN values |->
                   IF values[k] = NaN THEN ZNaN
                   ELSE [kind |-> "z", dev |-> 0 - err, n |-> 1, std |-> Tiny]],
          mean |-> NanMean(values), std |-> Tiny]
    ELSE ZScoreSeries(values)

\* _zscore_series of a column of standardized values dev / sqrt(V), which
\* share V: mean and standard deviation are those of the numerators, in
\* units of 1 / sqrt(V)
ZScoreSeriesOfZ(zs) ==
    LET devs == [k \in DOMAIN SelectSeq(zs, LAMBDA z : z.kind # "nan") |->
                    SelectSeq(zs, LAMBDA z : z.kind # "nan")[k].dev]
        mean == MeanOf(devs)
        sd == StdOf(devs)
    IN IF StdIsZero(sd) \/ StdIsNaN(sd)
       THEN [z |-> [k \in DOMAIN zs |-> ZZero], mean |-> mean,
             std |-> IF StdIsNaN(sd) THEN One ELSE sd]
       ELSE [z |-> [k \in DOMAIN zs |->
                       IF zs[k].kind = "nan" THEN ZNaN
                       ELSE [kind |-> "z", dev |-> mean.n * zs[k].dev - mean.S,
                             n |-> mean.n, std |-> sd]],
             mean |-> mean, std |-> sd]

\* Series.shift(1) of a column of standardized values
ShiftZ(zs) == [k \in DOMAIN zs |-> IF k = 1 THEN ZNaN ELSE zs[k - 1]]

\* KeyError without hh_ret, without hdd_median and hdd_mean, or without
\* working_gas_bcf
FitVolRaises(panel) ==
    \/ "hh_ret" \notin panel.columns
    \/ HddCol(panel.columns) = "none"
    \/ "working_gas_bcf" \notin panel.columns

Abs(x) == IF x = NaN THEN NaN ELSE IF x < 0 THEN 0 - x ELSE x

\* op_stress: stress_event, else critical_active, with nulls as 0; else 0
OpStress(panel, rows) ==
    IF "stress_event" \in panel.columns
    THEN [k \in DOMAIN rows |-> FillNaZero(rows[k].stress_event)]
    ELSE IF "critical_active" \in panel.columns
    THEN [k \in DOMAIN rows |-> FillNaZero(rows[k].critical_active)]
    ELSE [k \in DOMAIN rows |-> 0]

\* the rows of the window of w rows that ends at row k
Window(values, k, w) == SubSeq(values, IF k > w THEN k - w + 1 ELSE 1, k)

\* rolling(7, min_periods=1).sum()
RollingSum(values, w) ==
    [k \in DOMAIN values |->
        IF Len(NonNull(Window(values, k, w))) = 0 THEN NaN
        ELSE SumSeq(NonNull(Window(values, k, w)))]

\* rolling(5, min_periods=1).mean(), times RollScale
RollingMean(values, w) ==
    [k \in DOMAIN values |->
        IF Len(NonNull(Window(values, k, w))) = 0 THEN NaN
        ELSE (RollScale \div Len(NonNull(Window(values, k, w))))
                 * SumSeq(NonNull(Window(values, k, w)))]

\* d before the lags: the target, the rolling features, and storage_z, which
\* is standardized over the whole frame
VolDerived(panel) ==
    LET rows == SortValuesByDate(panel.rows)
    IN [c \in {"date", "y", "op_stress", "stress_days_7d", "hdd_5d", "storage_z"} |->
          CASE c = "date" -> Column(rows, "date")
            [] c = "y" -> [k \in DOMAIN rows |-> Abs(rows[k].hh_ret)]
            [] c = "op_stress" -> OpStress(panel, rows)
            [] c = "stress_days_7d" -> RollingSum(OpStress(panel, rows), StressWindow)
            [] c = "hdd_5d" -> RollingMean(Column(rows, HddCol(panel.columns)), HddWindow)
            [] c = "storage_z" ->
                  ZScoreSeriesRounded(Column(rows, "working_gas_bcf"), panel.rounding).z]

VolFeatureCols == <<"op_stress_lag1", "stress_days_7d_lag1", "hdd_5d_lag1", "storage_z_lag1">>

\* the lagged columns: each is shift(1) of the column it is named after
VolLagged(frame) ==
    [c \in DOMAIN frame \cup Range(VolFeatureCols) |->
        CASE c = "op_stress_lag1" -> Shift(frame["op_stress"])
          [] c = "stress_days_7d_lag1" -> Shift(frame["stress_days_7d"])
          [] c = "hdd_5d_lag1" -> Shift(frame["hdd_5d"])
          [] c = "storage_z_lag1" -> ShiftZ(frame["storage_z"])
          [] OTHER -> frame[c]]

\* X_op is used as it is; persist, hdd and storage are standardized and
\* their mean and standard deviation make the scalers
VolDesign(frame) ==
    [op |-> [k \in DOMAIN frame["op_stress_lag1"] |->
                 [kind |-> "raw", dev |-> frame["op_stress_lag1"][k], n |-> 1, std |-> One]],
     persist |-> ZScoreSeries(frame["stress_days_7d_lag1"]).z,
     hdd |-> ZScoreSeries(frame["hdd_5d_lag1"]).z,
     storage |-> ZScoreSeriesOfZ(frame["storage_z_lag1"]).z]

VolScalers(frame) ==
    [persist |-> [mean |-> ZScoreSeries(frame["stress_days_7d_lag1"]).mean,
                  std |-> ZScoreSeries(frame["stress_days_7d_lag1"]).std],
     hdd |-> [mean |-> ZScoreSeries(frame["hdd_5d_lag1"]).mean,
              std |-> ZScoreSeries(frame["hdd_5d_lag1"]).std],
     storage |-> [mean |-> ZScoreSeriesOfZ(frame["storage_z_lag1"]).mean,
                  std |-> ZScoreSeriesOfZ(frame["storage_z_lag1"]).std]]

\* the training column a design vector is standardized from
DesignColumn(c) ==
    CASE c = "op" -> "op_stress_lag1"
      [] c = "persist" -> "stress_days_7d_lag1"
      [] c = "hdd" -> "hdd_5d_lag1"
      [] c = "storage" -> "storage_z_lag1"
      [] OTHER -> c

(* --------------------------- forecast engine --------------------------- *)
\* (mutant) the standardized value without the test of std
ZUnguarded(v, mean, std) == Standardize(v, mean, std)

\* _z(x, mean, std): 0.0 when std is 0 or NaN, else (x - mean) / std
Z(v, mean, std) ==
    IF StdIsZero(std) \/ StdIsNaN(std) THEN ZZero ELSE Standardize(v, mean, std)

\* scalers[feat_name].get("mean", 0.0) and .get("std", 1.0)
ScalerMean(sc) ==
    IF "mean" \in DOMAIN sc THEN sc.mean ELSE [kind |-> "mean", S |-> 0, n |-> 1]
ScalerStd(sc) == IF "std" \in DOMAIN sc THEN sc.std ELSE One

\* a value that is used as it is
Raw(v) == [kind |-> "raw", dev |-> v, n |-> 1, std |-> One]

\* (mutant) the scaler is not applied
FeatValRaw(f, xs, scs) == Raw(xs[f])

\* feat_val: standardized when scalers is not None and has the feature, raw
\* otherwise; scalers = None is the scalers without any feature
FeatVal(f, xs, scs) ==
    IF f \in DOMAIN scs
    THEN Z(xs[f], ScalerMean(scs[f]), ScalerStd(scs[f]))
    ELSE Raw(xs[f])

Sqrt(v) == CHOOSE r \in 0 .. v : r * r = v

\* the number a standardized value is, where it is a whole number
ZNum(z) ==
    IF z.kind = "nan" \/ (z.kind = "raw" /\ z.dev = NaN) THEN NaN
    ELSE IF z.std.kind = "one" THEN z.dev \div z.n
    ELSE (z.dev * z.std.n) \div (z.n * Sqrt(z.std.V))

\* float arithmetic: a NaN operand gives NaN
Mul(a, b) == IF a = NaN \/ b = NaN THEN NaN ELSE a * b
Add(a, b) == IF a = NaN \/ b = NaN THEN NaN ELSE a + b

CoefPrefix == "b_"
CoefName(f) == CoefPrefix \o f

\* the features of x that are not skipped: coef_name in post
Used(xs, posterior) == {f \in DOMAIN xs : CoefName(f) \in DOMAIN posterior}

\* the draws, flattened across chains
Draws(posterior) == DOMAIN posterior["a"]

\* the loop over x.items(): the sum of b * feat_val over the features used
RECURSIVE Accumulate(_, _, _, _, _)
Accumulate(acc, todo, posterior, vals, d) ==
    IF todo = {} THEN acc
    ELSE LET f == CHOOSE g \in todo : TRUE
         IN Accumulate(Add(acc, Mul(posterior[CoefName(f)][d], ZNum(vals[f]))),
                       todo \ {f}, posterior, vals, d)

LinearPredictor(xs, posterior, vals) ==
    [d \in Draws(posterior) |->
        Accumulate(posterior["a"][d], Used(xs, posterior), posterior, vals, d)]

\* 1 / (1 + exp(-logit_p)) in thousandths, for whole logits; NaN for NaN
SigmoidTable == <<1, 2, 7, 18, 47, 119, 269, 500, 731, 881, 953, 982, 993, 998, 999>>
SigmoidHalf == (Len(SigmoidTable) - 1) \div 2
Sigmoid(e) ==
    IF e = NaN THEN NaN
    ELSE IF e < 0 - SigmoidHalf THEN 0
    ELSE IF e > SigmoidHalf THEN 1000
    ELSE SigmoidTable[e + SigmoidHalf + 1]

\* (mutant) at the threshold counts as above it
AtLeast(v, threshold) == v # NaN /\ v >= threshold

\* v > threshold, which no NaN is
Above(v, threshold) == v # NaN /\ v > threshold

\* np.mean(samples > threshold)
FractionAbove(samples, threshold) ==
    [num |-> Cardinality({d \in DOMAIN samples : Above(samples[d], threshold)}),
     den |-> Len(samples)]

\* (mutant) the smaller of the two
Min(a, b) == IF a <= b THEN a ELSE b

\* np.maximum
Max(a, b) == IF a >= b THEN a ELSE b

\* min_nu = 2.1, in tenths
MinNu == 21

(* ------------------------ derive_forecast_inputs ----------------------- *)
\* the windows of rolling(3) and rolling(365 * 3)
DeriveWindow == 3
StorageWindow == 365 * 3

\* rolling(w).mean().iloc[-1]: the mean S / n of the last w rows, NaN with
\* fewer than w rows or with a null among them (min_periods is the window)
LastRollingMean(values, w) ==
    IF Len(values) < w THEN MeanOf(<<>>)
    ELSE IF Len(NonNull(Window(values, Len(values), w))) < w THEN MeanOf(<<>>)
    ELSE MeanOf(Window(values, Len(values), w))

\* .iloc[-1]
Last(values) == values[Len(values)]

\* ValueError("Not enough data ...") with fewer than 2 rows
DeriveRaises(panel) == Len(panel.rows) < 2

\* the dict derive_forecast_inputs returns, each value with its kind: a mean
\* S / n, a value as it is in the panel, the last value minus a mean, or NaN
DeriveForecastInputs(panel) ==
    LET rows == SortValuesByDate(panel.rows)
        storage == Column(rows, "working_gas_bcf")
    IN [op |-> LastRollingMean(Column(rows, "stress_event"), DeriveWindow),
        persist |-> LastRollingMean([k \in DOMAIN rows |-> Abs(rows[k].hh_ret)], DeriveWindow),
        hdd |-> IF Last(Column(rows, "hdd_median")) = NaN THEN MeanOf(<<>>)
                ELSE MeanOf(<<Last(Column(rows, "hdd_median"))>>),
        storage |-> IF Last(storage) = NaN
                       \/ LastRollingMean(storage, StorageWindow).kind = "nan"
                    THEN MeanOf(<<>>)
                    ELSE [kind |-> "minus", S |-> Last(storage), n |-> 1,
                          mean |-> LastRollingMean(storage, StorageWindow)]]

(* ------------------------------ inputs --------------------------------- *)
NoticeRecords(ids, effective, end, posted, critical) ==
    [notice_id : ids, posted_dt : posted, effective_dt : effective,
     end_dt : end, critical : critical]

WeeklyRecords == [date : CalendarDays \cup {NaT}, working_gas_bcf : (1 .. MaxValue) \cup {NaN}]

\* All_Qty_Avail is a whole number of QtyStep units, or does not parse
QtyStep == 2
CapacityRecords ==
    [Post_Date_dt : Instants \cup {NaT},
     All_Qty_Avail : {QtyStep * q : q \in 0 .. MaxQty} \cup {NaN}]

Frames(records, maxRows) == UNION {[1 .. k -> records] : k \in 0 .. maxRows}

\* frames of up to maxRows rows with the given dates; the payload of a row is
\* its position in the frame, so that every row is told from every other
DatedFrames(dates, maxRows) == UNION {[1 .. k -> dates] : k \in 0 .. maxRows}

WeatherFrames ==
    {[k \in DOMAIN ds |-> [date |-> ds[k], hdd_mean |-> k]] :
        ds \in DatedFrames(CalendarDays \cup {NaT}, MaxWeather)}

PriceFrames ==
    {[k \in DOMAIN ds |-> [date |-> ds[k], henry_hub_usd_per_mmbtu |-> k]] :
        ds \in DatedFrames(CalendarDays \cup {NaT}, MaxPrices)}

StorageFrames ==
    {[k \in DOMAIN ds |-> [date |-> ds[k], working_gas_bcf |-> k]] :
        ds \in DatedFrames(CalendarDays \cup {NaT}, MaxStorage)}

\* notices that start on one of the first days and end on any day or never;
\* load_notices_df selects on posted_dt, so a loaded notice has one
PanelNoticeFrames ==
    {[k \in DOMAIN f |-> [f[k] EXCEPT !.notice_id = k]] :
        f \in Frames(NoticeRecords({0}, {Midnight(d) : d \in Days},
                                   {Midnight(d) : d \in CalendarDays} \cup {NaT},
                                   {Midnight(0)}, {"True", "False"}), MaxNotices)}

DefaultPrices == <<[date |-> 0, henry_hub_usd_per_mmbtu |-> 1]>>

\* no forecast has been asked for
\* no configuration is read and no sink is writing
NoCfg == [start |-> NaT, end |-> NaT]
NoWrite == [doc |-> <<>>, outcome |-> ""]
IdleStore ==
    /\ cfg = NoCfg /\ stored = <<>>
    /\ sink = "" /\ collection = {} /\ written = {} /\ last_write = NoWrite

IdleForecast ==
    /\ x_raw = <<>> /\ post = <<>> /\ prob_threshold = 0
    /\ feat_val = <<>> /\ logit_p = <<>> /\ nu = <<>> /\ t_samp = <<>>
    /\ samp = <<>> /\ prob = <<>> /\ first_eval = <<>>

IdleFit ==
    /\ IdleForecast
    /\ routine = ""
    /\ d_fit = <<>>
    /\ feature_cols = <<>>
    /\ standardized = {}
    /\ Xs = <<>>
    /\ y_obs = <<>>
    /\ scalers = <<>>

Idle ==
    /\ IdleFit
    /\ IdleStore
    /\ failed = ""
    /\ daily = {}
    /\ stress_daily = Returned(<<>>)
    /\ storage_d = Returned(<<>>)
    /\ weather = <<>>
    /\ hh = <<>>
    /\ cap_feat = <<>>
    /\ df = NoPanel

\* notices with every shape of timestamps and a boolean critical flag
InitExpander ==
    /\ pc = "stress"
    /\ notices \in Frames(NoticeRecords(1 .. MaxIds, RawTimestamps, RawTimestamps,
                                        RawTimestamps, {"True", "False"}), MaxNotices)
    /\ storage_w = <<>> /\ weather_src = <<>> /\ hh_src = <<>> /\ cap = <<>>
    /\ Idle

\* notices with every shape of critical flag and well-formed or open-ended windows
InitCritical ==
    /\ pc = "stress"
    /\ notices \in Frames(NoticeRecords(1 .. MaxIds, Instants, Instants \cup {NaT},
                                        {Midnight(0)}, CriticalValues), MaxNotices)
    /\ storage_w = <<>> /\ weather_src = <<>> /\ hh_src = <<>> /\ cap = <<>>
    /\ Idle

InitAligner ==
    /\ pc = "storage"
    /\ storage_w \in Frames(WeeklyRecords, MaxWeekly)
    /\ notices = <<>> /\ weather_src = <<>> /\ hh_src = <<>> /\ cap = <<>>
    /\ Idle

\* the end-to-end scenario: one critical notice over the first three days of a
\* calendar two days longer
ScenarioWeather == [k \in 1 .. (MaxCalendarDay + 2) |-> [date |-> k - 1, hdd_mean |-> k]]
ScenarioNotices ==
    <<[notice_id |-> 1, posted_dt |-> Midnight(0), effective_dt |-> Midnight(0),
       end_dt |-> Midnight(2), critical |-> "True"]>>

\* every weather frame, with one of the other sources varying at a time, and
\* the scenario
InitPanel ==
    /\ pc = "weather"
    /\ Idle
    /\ \/ /\ weather_src \in WeatherFrames
          /\ \/ /\ hh_src \in PriceFrames
                /\ storage_w = <<>> /\ notices = <<>> /\ cap = <<>>
             \/ /\ storage_w \in StorageFrames
                /\ hh_src = DefaultPrices /\ notices = <<>> /\ cap = <<>>
             \/ /\ notices \in PanelNoticeFrames
                /\ hh_src = DefaultPrices /\ storage_w = <<>> /\ cap = <<>>
             \/ /\ cap \in Frames(CapacityRecords, MaxCap)
                /\ hh_src = DefaultPrices /\ storage_w = <<>> /\ notices = ScenarioNotices
       \/ /\ weather_src = ScenarioWeather
          /\ notices = ScenarioNotices
          /\ hh_src = DefaultPrices /\ storage_w = <<>> /\ cap = <<>>

\* prices on the calendar of the price features: missing, negative, zero, or
\* a power of two, whose logarithm is whole
PriceDays == 0 .. MaxPriceDay
PriceValues == {NaN, -1, 0} \cup {2 ^ e : e \in 0 .. MaxLogPrice}

Orderings(S) ==
    {p \in [1 .. Cardinality(S) -> S] : \A i, j \in DOMAIN p : p[i] = p[j] => i = j}

\* the weather rows of any set of days, in any order
PermutedWeatherFrames ==
    {[k \in DOMAIN p |-> [date |-> p[k], hdd_mean |-> k]] :
        p \in UNION {Orderings(S) : S \in SUBSET PriceDays}}

\* a price, or none, for each day: load_henry_hub_daily returns the rows by date
PriceSeries ==
    {[k \in 1 .. Cardinality(DOMAIN v) |->
         [date |-> KthDate(DOMAIN v, k), henry_hub_usd_per_mmbtu |-> v[KthDate(DOMAIN v, k)]]] :
        v \in UNION {[S -> PriceValues] : S \in SUBSET PriceDays}}

InitPrice ==
    /\ pc = "weather"
    /\ Idle
    /\ weather_src \in PermutedWeatherFrames
    /\ hh_src \in PriceSeries
    /\ storage_w = <<>> /\ cap = <<>> /\ notices = ScenarioNotices

\* the panels handed to the fit routines: ascending dates, one row per date,
\* stress_event 0 or 1, as build_model_frame returns them
FeatureValues == {NaN} \cup (0 .. MaxFeature)

Dated(rows) == [k \in DOMAIN rows |-> [rows[k] EXCEPT !.date = k - 1]]

FitColumns ==
    {"date", "hdd_median", "hdd_mean", "working_gas_bcf", "all_qty_avail_median",
     "notice_active_count", "stress_event", "hh_ret"}

\* working_gas_bcf is no column when the storage source was empty
FitColumnSets ==
    {FitColumns, FitColumns \ {"working_gas_bcf"}, FitColumns \ {"hdd_median"}}

StressFitRows ==
    [date : {0}, stress_event : {0, 1}, hdd_median : FeatureValues, hdd_mean : {0},
     working_gas_bcf : {NaN, 1}, all_qty_avail_median : {0},
     notice_active_count : {0}, hh_ret : {NaN}]

StressFitPanels ==
    {[columns |-> cs, rows |-> Dated(f)] :
        cs \in FitColumnSets, f \in Frames(StressFitRows, MaxFitRows)}

\* the first return of a price series is null
VolFitRows ==
    [date : {0}, stress_event : {0, 1}, hdd_median : {NaN, 0, 1}, hdd_mean : {0},
     working_gas_bcf : FeatureValues, all_qty_avail_median : {0},
     notice_active_count : {0}, hh_ret : {NaN, 1}]

\* rounding is the rounding error of the float mean of working_gas_bcf; it
\* is 0 unless the column is constant and not zero over three or more rows
VolFitPanels ==
    {p \in [columns : {FitColumns},
            rows : {Dated(f) : f \in {g \in Frames(VolFitRows, MaxFitRows) :
                                         Len(g) > 0 => g[1].hh_ret = NaN}},
            rounding : RoundingErrors] :
        p.rounding # 0 =>
            /\ Len(p.rows) >= MinRounded
            /\ p.rows[1].working_gas_bcf # 0
            /\ \A k \in DOMAIN p.rows :
                  /\ p.rows[k].working_gas_bcf # NaN
                  /\ p.rows[k].working_gas_bcf = p.rows[1].working_gas_bcf}
    \cup {[columns |-> cs, rows |-> <<>>, rounding |-> 0] : cs \in FitColumnSets}

buildVars == <<notices, daily, stress_daily, storage_w, storage_d, weather_src,
               weather, hh_src, hh, cap, cap_feat, loadVars, sinkVars>>

\* the panel builder is not running
IdleBuild ==
    /\ failed = ""
    /\ IdleStore
    /\ notices = <<>> /\ storage_w = <<>> /\ weather_src = <<>> /\ hh_src = <<>> /\ cap = <<>>
    /\ daily = {}
    /\ stress_daily = Returned(<<>>)
    /\ storage_d = Returned(<<>>)
    /\ weather = <<>>
    /\ hh = <<>>
    /\ cap_feat = <<>>

InitFitStress ==
    /\ pc = "stress_lag"
    /\ IdleBuild
    /\ df \in StressFitPanels
    /\ routine = "stress"
    /\ IdleForecast
    /\ d_fit = <<>> /\ feature_cols = <<>> /\ standardized = {}
    /\ Xs = <<>> /\ y_obs = <<>> /\ scalers = <<>>

InitFitVol ==
    /\ pc = "vol_derive"
    /\ IdleBuild
    /\ df \in VolFitPanels
    /\ routine = "vol"
    /\ IdleForecast
    /\ d_fit = <<>> /\ feature_cols = <<>> /\ standardized = {}
    /\ Xs = <<>> /\ y_obs = <<>> /\ scalers = <<>>

InitFit == InitFitStress \/ InitFitVol

\* the panels derive_forecast_inputs is handed: those of the volatility fit
DerivePanels == {p \in VolFitPanels : p.rounding = 0 /\ p.columns = FitColumns}

InitDerive ==
    /\ pc = "derive"
    /\ IdleBuild
    /\ IdleForecast
    /\ df \in DerivePanels
    /\ routine = ""
    /\ d_fit = <<>> /\ feature_cols = <<>> /\ standardized = {}
    /\ Xs = <<>> /\ y_obs = <<>> /\ scalers = <<>>

MaxDraws == 2          \* posterior draws

ForecastFeatures == {"hdd", "storage"}

\* the forecast points: any of the features, hdd possibly undefined
ForecastPoints ==
    {xs \in UNION {[S -> {NaN, 0, 2, 4}] : S \in SUBSET ForecastFeatures} :
        "storage" \in DOMAIN xs => xs["storage"] = 2}

\* a Scaler, with or without its keys
ForecastScalers ==
    {m @@ sd :
        m \in {<<>>} \cup {"mean" :> [kind |-> "mean", S |-> v, n |-> 1] : v \in {0, 2}},
        sd \in {<<>>} \cup {"std" :> v : v \in {[kind |-> "sd", V |-> 0, n |-> 1],
                                                [kind |-> "sd", V |-> 4, n |-> 1],
                                                [kind |-> "nan", V |-> 0, n |-> 0]}}}

\* scalers: None (no feature) or a Scaler for hdd
ForecastScalerSets == {<<>>} \cup {"hdd" :> sc : sc \in ForecastScalers}

\* the posterior: the intercept, the coefficients the model was fit with and,
\* for the volatility model, sigma and nu (in tenths)
Posteriors(r) ==
    UNION {
        {("a" :> a) @@ bh @@ bs @@ sn :
            a \in [1 .. D -> {0 - 1, 0, 1}],
            bh \in {<<>>} \cup {CoefName("hdd") :> b : b \in [1 .. D -> {0 - 1, 1}]},
            bs \in {<<>>, CoefName("storage") :> [d \in 1 .. D |-> 1]},
            sn \in IF r = "vol"
                   THEN {("sigma" :> [d \in 1 .. D |-> sg]) @@ ("nu" :> [d \in 1 .. D |-> n]) :
                            sg \in {0, 1}, n \in {10, 50}}
                   ELSE {<<>>}}
        : D \in 1 .. MaxDraws}

\* thresholds: probabilities in thousandths (0.30 by default), or values of y
Thresholds(r) == IF r = "stress" THEN {300, 500} ELSE {0, 2}

TValues == {0 - 1, 1}

InitForecast ==
    /\ pc = "forecast"
    /\ IdleBuild
    /\ df = NoPanel
    /\ routine \in {"stress", "vol"}
    /\ d_fit = <<>> /\ feature_cols = <<>> /\ standardized = {}
    /\ Xs = <<>> /\ y_obs = <<>>
    /\ scalers \in ForecastScalerSets
    /\ x_raw \in ForecastPoints
    /\ post \in Posteriors(routine)
    /\ prob_threshold \in Thresholds(routine)
    /\ feat_val = <<>> /\ logit_p = <<>> /\ nu = <<>> /\ t_samp = <<>>
    /\ samp = <<>> /\ prob = <<>> /\ first_eval = <<>>

(* ------------------------------ actions -------------------------------- *)
\* weather = _ensure_daily_index(load_noaa_region_daily(...), "date")
WeatherStep ==
    /\ pc = "weather"
    /\ IF EnsureDailyIndexRaises(weather_src)
       THEN /\ pc' = "raised"
            /\ failed' = "weather"
            /\ weather' = weather
       ELSE /\ \E w \in EnsureDailyIndexResults(weather_src) : weather' = w
            /\ pc' = "hh"
            /\ failed' = failed
    /\ UNCHANGED <<fitVars, forecastVars, sources, daily, stress_daily, storage_d, hh, cap_feat, df>>

\* hh = _ensure_daily_index(load_henry_hub_daily(...), "date")
HHStep ==
    /\ pc = "hh"
    /\ IF EnsureDailyIndexRaises(hh_src)
       THEN /\ pc' = "raised"
            /\ failed' = "hh"
            /\ hh' = hh
       ELSE /\ \E h \in EnsureDailyIndexResults(hh_src) : hh' = h
            /\ pc' = "storage"
            /\ failed' = failed
    /\ UNCHANGED <<fitVars, forecastVars, sources, daily, stress_daily, storage_d, weather, cap_feat, df>>

\* storage_d = _weekly_to_daily_ffill(storage_w, "date", ["working_gas_bcf"])
StorageStep ==
    /\ pc = "storage"
    /\ storage_d' = WeeklyToDailyFfill(storage_w)
    /\ pc' = IF WeeklyToDailyRaises(storage_w) THEN "raised" ELSE "stress"
    /\ failed' = IF WeeklyToDailyRaises(storage_w) THEN "storage" ELSE failed
    /\ UNCHANGED <<fitVars, forecastVars, sources, daily, stress_daily, weather, hh, cap_feat, df>>

\* stress_daily = _build_stress_from_notices(notices)
StressStep ==
    /\ pc = "stress"
    /\ stress_daily' = BuildStressFromNotices(notices)
    /\ daily' = IF Len(notices) = 0 \/ BuildStressRaises(notices) THEN {} ELSE Explode(notices)
    /\ pc' = IF BuildStressRaises(notices) THEN "raised" ELSE "cap"
    /\ failed' = IF BuildStressRaises(notices) THEN "stress" ELSE failed
    /\ UNCHANGED <<fitVars, forecastVars, sources, storage_d, weather, hh, cap_feat, df>>

\* cap_feat: the daily median of All_Qty_Avail of load_capacity_df(...)
CapStep ==
    /\ pc = "cap"
    /\ cap_feat' = CapFeat(cap)
    /\ pc' = "assemble"
    /\ UNCHANGED <<fitVars, forecastVars, failed, sources, daily, stress_daily, storage_d, weather, hh, df>>

\* the merges on the weather calendar, the fills, the derived features and the
\* final sort; build_model_frame returns df
AssembleStep ==
    /\ pc = "assemble"
    /\ IF AssembleRaises(weather, notices, cap)
       THEN /\ pc' = "raised"
            /\ failed' = "assemble"
            /\ df' = df
       ELSE /\ df' = Assemble(weather, hh, storage_d.rows, stress_daily, cap_feat)
            /\ pc' = "done"
            /\ failed' = failed
    /\ UNCHANGED <<fitVars, forecastVars, sources, daily, stress_daily, storage_d, weather, hh, cap_feat>>

\* fit_stress_event_model: sort, target, lagged predictors
StressLagStep ==
    /\ pc = "stress_lag"
    /\ IF FitStressRaises(df)
       THEN /\ pc' = "raised"
            /\ failed' = "fit"
            /\ UNCHANGED <<d_fit, feature_cols>>
       ELSE /\ d_fit' = StressLagged(df)
            /\ feature_cols' = Names(StressPredictors(df.columns))
            /\ pc' = "stress_dropna"
            /\ failed' = failed
    /\ UNCHANGED <<buildVars, forecastVars, df, routine, standardized, Xs, y_obs, scalers>>

\* d = d.dropna(subset=["y"] + feature_cols); y = d["y"]
StressDropNaStep ==
    /\ pc = "stress_dropna"
    /\ d_fit' = DropNa(d_fit, {"y"} \cup Range(feature_cols))
    /\ y_obs' = d_fit'["y"]
    /\ pc' = "stress_standardize"
    /\ UNCHANGED <<buildVars, forecastVars, failed, df, routine, feature_cols, standardized, Xs, scalers>>

\* for name in predictors: z, mu, sd = zscore(d[name]); the model is then
\* handed to the sampler
StressStandardizeStep ==
    /\ pc = "stress_standardize"
    /\ Xs' = [c \in Range(feature_cols) |-> ZScore(d_fit[c]).z]
    /\ scalers' = [c \in Range(feature_cols) |->
                     [mean |-> ZScore(d_fit[c]).mean, std |-> ZScore(d_fit[c]).std]]
    /\ standardized' = standardized \cup Range(feature_cols)
    /\ pc' = "fitted"
    /\ UNCHANGED <<buildVars, forecastVars, failed, df, routine, d_fit, feature_cols, y_obs>>

\* fit_vol_risk_model: sort, target, op_stress, rolling features, storage_z
VolDeriveStep ==
    /\ pc = "vol_derive"
    /\ IF FitVolRaises(df)
       THEN /\ pc' = "raised"
            /\ failed' = "fit"
            /\ UNCHANGED <<d_fit, standardized>>
       ELSE /\ d_fit' = VolDerived(df)
            /\ standardized' = standardized \cup {"working_gas_bcf"}
            /\ pc' = "vol_lag"
            /\ failed' = failed
    /\ UNCHANGED <<buildVars, forecastVars, df, routine, feature_cols, Xs, y_obs, scalers>>

\* lag all predictors by 1 day
VolLagStep ==
    /\ pc = "vol_lag"
    /\ d_fit' = VolLagged(d_fit)
    /\ feature_cols' = VolFeatureCols
    /\ pc' = "vol_dropna"
    /\ UNCHANGED <<buildVars, forecastVars, failed, df, routine, standardized, Xs, y_obs, scalers>>

\* d = d.dropna(subset=["y"] + feat_cols)
VolDropNaStep ==
    /\ pc = "vol_dropna"
    /\ d_fit' = DropNa(d_fit, {"y"} \cup Range(feature_cols))
    /\ pc' = "vol_standardize"
    /\ UNCHANGED <<buildVars, forecastVars, failed, df, routine, feature_cols, standardized, Xs, y_obs, scalers>>

\* the design vectors, y and the scalers; the model is then handed to the sampler
VolStandardizeStep ==
    /\ pc = "vol_standardize"
    /\ Xs' = VolDesign(d_fit)
    /\ y_obs' = d_fit["y"]
    /\ scalers' = VolScalers(d_fit)
    /\ standardized' = standardized \cup {"stress_days_7d_lag1", "hdd_5d_lag1", "storage_z_lag1"}
    /\ pc' = "fitted"
    /\ UNCHANGED <<buildVars, forecastVars, failed, df, routine, d_fit, feature_cols>>

\* the forecast is evaluated once, and once again with the same inputs
ForecastCalled ==
    /\ pc = "forecast" \/ (pc = "forecast_done" /\ first_eval = <<>>)
    /\ first_eval' = IF pc = "forecast" THEN first_eval
                     ELSE [samp |-> samp, prob |-> prob]

\* forecast_stress_event_prob
ForecastStressStep ==
    /\ ForecastCalled
    /\ routine = "stress"
    /\ feat_val' = [f \in Used(x_raw, post) |-> FeatVal(f, x_raw, scalers)]
    /\ logit_p' = LinearPredictor(x_raw, post, feat_val')
    /\ samp' = [d \in DOMAIN logit_p' |-> Sigmoid(logit_p'[d])]
    /\ prob' = FractionAbove(samp', prob_threshold)
    /\ pc' = "forecast_done"
    /\ UNCHANGED <<buildVars, fitVars, failed, df, x_raw, post, prob_threshold, nu, t_samp>>

\* forecast_vol_risk: t is drawn at random, one value per draw
ForecastVolStep ==
    /\ ForecastCalled
    /\ routine = "vol"
    /\ nu' = [d \in Draws(post) |-> Max(post["nu"][d], MinNu)]
    /\ feat_val' = [f \in Used(x_raw, post) |-> FeatVal(f, x_raw, scalers)]
    /\ logit_p' = LinearPredictor(x_raw, post, feat_val')
    /\ t_samp' \in [Draws(post) -> TValues]
    /\ samp' = [d \in DOMAIN logit_p' |-> Add(logit_p'[d], Mul(post["sigma"][d], t_samp'[d]))]
    /\ prob' = FractionAbove(samp', prob_threshold)
    /\ pc' = "forecast_done"
    /\ UNCHANGED <<buildVars, fitVars, failed, df, x_raw, post, prob_threshold>>

\* the features of a fitted model whose raw values are numbers of the panel
ReusableFeatures == {f \in DOMAIN Xs : DesignColumn(f) \notin ZColumns}

\* the points a fitted model is asked about: a row of the training frame, or
\* the same value for every feature
ReusePoints ==
    {[f \in ReusableFeatures |-> d_fit[DesignColumn(f)][k]] : k \in DOMAIN d_fit["date"]}
    \cup {[f \in ReusableFeatures |-> v] : v \in 0 .. MaxFeature}

\* the Forecast Engine is handed the scalers the fit routine returned and
\* standardizes a point with them (the posterior comes from the sampler)
ReuseScalersStep ==
    /\ pc = "fitted"
    /\ x_raw' \in ReusePoints
    /\ feat_val' = [f \in DOMAIN x_raw' |-> FeatVal(f, x_raw', scalers)]
    /\ pc' = "reused"
    /\ UNCHANGED <<buildVars, fitVars, failed, df, post, prob_threshold, logit_p,
                   nu, t_samp, samp, prob, first_eval>>

\* derive_forecast_inputs(df)
DeriveStep ==
    /\ pc = "derive"
    /\ IF DeriveRaises(df)
       THEN /\ pc' = "raised"
            /\ failed' = "derive"
            /\ x_raw' = x_raw
       ELSE /\ x_raw' = DeriveForecastInputs(df)
            /\ pc' = "derived"
            /\ failed' = failed
    /\ UNCHANGED <<buildVars, fitVars, df, post, prob_threshold, feat_val, logit_p,
                   nu, t_samp, samp, prob, first_eval>>

NextExpander == StressStep

NextAligner == StorageStep

NextPanel ==
    \/ WeatherStep
    \/ HHStep
    \/ StorageStep
    \/ StressStep
    \/ CapStep
    \/ AssembleStep

SpecExpander == InitExpander /\ [][NextExpander]_vars

SpecCritical == InitCritical /\ [][NextExpander]_vars

SpecAligner == InitAligner /\ [][NextAligner]_vars

SpecPanel == InitPanel /\ [][NextPanel]_vars

SpecPrice == InitPrice /\ [][NextPanel]_vars

NextFitStress ==
    \/ ReuseScalersStep
    \/ StressLagStep
    \/ StressDropNaStep
    \/ StressStandardizeStep

SpecFitStress == InitFitStress /\ [][NextFitStress]_vars

NextFitVol ==
    \/ VolDeriveStep
    \/ VolLagStep
    \/ VolDropNaStep
    \/ VolStandardizeStep

SpecFitVol == InitFitVol /\ [][NextFitVol]_vars

NextFit == NextFitStress \/ NextFitVol

(* ----------------------- load_notices_df ------------------------------- *)
\* query["posted_dt"] = {"$gte": start of the start day, "$lte": end of the
\* end day}: a document without a posted_dt date does not match
PostedInRange(doc, start, end) ==
    /\ doc.posted_dt # NaT
    /\ Midnight(start) <= doc.posted_dt
    /\ doc.posted_dt <= Midnight(end + 1) - 1

RECURSIVE InsertByPosted(_, _)
InsertByPosted(sorted, doc) ==
    IF Len(sorted) = 0 THEN <<doc>>
    ELSE IF doc.posted_dt < Head(sorted).posted_dt THEN <<doc>> \o sorted
    ELSE <<Head(sorted)>> \o InsertByPosted(Tail(sorted), doc)

\* sort=[("posted_dt", 1)]
RECURSIVE SortByPosted(_)
SortByPosted(docs) ==
    IF Len(docs) = 0 THEN <<>>
    ELSE InsertByPosted(SortByPosted(SubSeq(docs, 1, Len(docs) - 1)), docs[Len(docs)])

\* load_notices_df(collection, start=cfg.start, end=cfg.end)
LoadNoticesDf(docs, start, end) ==
    SortByPosted(SelectSeq(docs, LAMBDA doc : PostedInRange(doc, start, end)))

\* the calendar of the weather source between cfg.start and cfg.end
CfgWeather(c) == [k \in 1 .. (c.end - c.start + 1) |-> [date |-> c.start + k - 1, hdd_mean |-> k]]

\* the stored notices: posted on one of the first days, in force from their
\* effective instant or their posting, until an end day of the calendar
StoredNotices ==
    {[k \in DOMAIN f |-> [f[k] EXCEPT !.notice_id = k]] :
        f \in Frames(NoticeRecords({0}, {Midnight(d) : d \in Days} \cup {NaT},
                                   {Midnight(d) : d \in CalendarDays} \cup {NaT},
                                   {Midnight(d) : d \in Days}, {"True", "False"}),
                     MaxNotices)}

Configs == {c \in [start : Days, end : CalendarDays] : c.start <= c.end}

InitCoverage ==
    /\ pc = "load_notices"
    /\ IdleFit
    /\ failed = "" /\ daily = {} /\ stress_daily = Returned(<<>>)
    /\ storage_d = Returned(<<>>) /\ weather = <<>> /\ hh = <<>> /\ cap_feat = <<>>
    /\ df = NoPanel
    /\ cfg \in Configs
    /\ stored \in StoredNotices
    /\ notices = <<>>
    /\ weather_src = CfgWeather(cfg)
    /\ hh_src = DefaultPrices /\ storage_w = <<>> /\ cap = <<>>
    /\ sink = "" /\ collection = {} /\ written = {} /\ last_write = NoWrite

\* notices = load_notices_df(..., start=cfg.start, end=cfg.end); the loaders
\* read separate collections, so the order of the loads does not matter
LoadNoticesStep ==
    /\ pc = "load_notices"
    /\ notices' = LoadNoticesDf(stored, cfg.start, cfg.end)
    /\ pc' = "weather"
    /\ UNCHANGED <<fitVars, forecastVars, failed, loadVars, sinkVars, storage_w,
                   weather_src, hh_src, cap, daily, stress_daily, storage_d, weather,
                   hh, cap_feat, df>>

(* --------------------------- upsert sinks ------------------------------ *)
MaxRecords == 2        \* records of the frame one run of a sink writes
MaxDocs == 7           \* documents of a collection

NoneValue == "None"    \* a field that is None
Absent == "Absent"     \* a field the document does not have

\* the key of a document in a unique index: a field the document does not
\* have is indexed as null
IndexKey(key) == [k \in DOMAIN key |-> IF key[k] = Absent THEN NoneValue ELSE key[k]]

\* the filter {field: value, ...} on the key fields: a null matches a field
\* that is null or absent
Matches(doc, filt) == IndexKey(doc.key) = IndexKey(filt)

\* a new document, with the _id the server gives it
InsertNew(coll, key, value) ==
    coll \cup {[_id |-> Cardinality(coll) + 1, key |-> key, value |-> value]}

\* (mutant) the write inserts whatever the collection holds
UpdateOneInsert(coll, filt, value) == InsertNew(coll, filt, value)

\* UpdateOne(filt, {"$set": doc}, upsert=True): the matching document is
\* updated, a new one is inserted when none matches
UpdateOneUpsert(coll, filt, value) ==
    IF \E doc \in coll : Matches(doc, filt)
    THEN LET doc == CHOOSE e \in coll : Matches(e, filt)
         IN (coll \ {doc}) \cup {[doc EXCEPT !.key = filt, !.value = value]}
    ELSE InsertNew(coll, filt, value)

\* col.bulk_write(ops): the operations of the batch, one after the other
RECURSIVE BulkWrite(_, _)
BulkWrite(coll, ops) ==
    IF Len(ops) = 0 THEN coll
    ELSE BulkWrite(UpdateOneUpsert(coll, Head(ops).filt, Head(ops).value), Tail(ops))

\* insert_one(doc) on a collection with the unique index raises
\* DuplicateKeyError when a document has the key of doc
InsertOneRaises(coll, key) == \E doc \in coll : IndexKey(doc.key) = IndexKey(key)

\* the filter of a record, by sink
StorageFilter(rec) == <<rec.series, rec.date>>
HHSpotFilter(rec) ==
    <<IF rec.series \in {NoneValue, ""} THEN "RNGWHHD" ELSE rec.series, rec.date>>
WeatherFilter(rec) == <<rec.pipeline, rec.region_id, rec.date>>
SinkFilter(s, rec) ==
    CASE s = "storage" -> StorageFilter(rec)
      [] s = "hh_spot" -> HHSpotFilter(rec)
      [] s = "weather" -> WeatherFilter(rec)

\* mongo_unique_fields = ["Loc_Name", "Post_Date", "TSP"]
ItemKey(item) == <<item.Loc_Name, item.Post_Date, item.TSP>>

\* missing = [f for f in unique_fields if f not in doc or doc[f] in (None, "")]
MissingFields(item) ==
    {k \in DOMAIN ItemKey(item) : ItemKey(item)[k] \in {Absent, NoneValue, ""}}

\* the records of a frame, by sink, and the items of the capacity spider
SinkRecords(s) ==
    CASE s = "storage" -> [series : {"NW2", NoneValue}, date : {"d1", "d2"}, value : {1, 2}]
      [] s = "hh_spot" -> [series : {"RNGWHHD", NoneValue, ""}, date : {"d1", "d2"},
                           value : {1, 2}]
      [] s = "weather" -> [pipeline : {"algonquin"}, region_id : {"r1", "r2"},
                           date : {"d1", "d2"}, value : {1, 2}]
Items ==
    [Loc_Name : {"x", Absent, NoneValue, ""}, Post_Date : {"d1", Absent}, TSP : {"t"},
     value : {1}]

Sinks == {"storage", "hh_spot", "weather", "items"}

\* the collection is empty and its unique index exists
InitSink ==
    /\ pc = "sink"
    /\ IdleFit
    /\ failed = "" /\ daily = {} /\ stress_daily = Returned(<<>>)
    /\ storage_d = Returned(<<>>) /\ weather = <<>> /\ hh = <<>> /\ cap_feat = <<>>
    /\ df = NoPanel
    /\ notices = <<>> /\ storage_w = <<>> /\ weather_src = <<>> /\ hh_src = <<>> /\ cap = <<>>
    /\ cfg = NoCfg /\ stored = <<>>
    /\ sink \in Sinks
    /\ collection = {} /\ written = {} /\ last_write = NoWrite

\* one run of mongo_upsert_storage, mongo_upsert_hh_spot or
\* mongo_upsert_weather (region documents) on a frame of records; the frames
\* hold the records in every order, as an unordered batch may run them
UpsertRun ==
    /\ pc = "sink"
    /\ sink \in {"storage", "hh_spot", "weather"}
    /\ Cardinality(collection) < MaxDocs
    /\ \E recs \in Frames(SinkRecords(sink), MaxRecords) \ {<<>>} :
          LET ops == [k \in DOMAIN recs |->
                        [filt |-> SinkFilter(sink, recs[k]), value |-> recs[k].value]]
          IN /\ collection' = BulkWrite(collection, ops)
             /\ written' = written \cup {IndexKey(ops[k].filt) : k \in DOMAIN ops}
             /\ last_write' = [doc |-> recs, outcome |-> "returned"]
    /\ UNCHANGED <<pc, failed, notices, storage_w, weather_src, hh_src, cap, loadVars,
                   sink, daily, stress_daily, storage_d, weather, hh, cap_feat, df,
                   fitVars, forecastVars>>

\* MongoPipeline.process_item for a spider with mongo_unique_fields
ProcessItem ==
    /\ pc = "sink"
    /\ sink = "items"
    /\ Cardinality(collection) < MaxDocs
    /\ \E item \in Items :
          /\ written' = written \cup {IndexKey(ItemKey(item))}
          /\ IF MissingFields(item) # {}
             THEN IF InsertOneRaises(collection, ItemKey(item))
                  THEN /\ collection' = collection
                       /\ last_write' = [doc |-> item, outcome |-> "raised"]
                  ELSE /\ collection' = InsertNew(collection, ItemKey(item), item.value)
                       /\ last_write' = [doc |-> item, outcome |-> "returned"]
             ELSE /\ collection' = UpdateOneUpsert(collection, ItemKey(item), item.value)
                  /\ last_write' = [doc |-> item, outcome |-> "returned"]
    /\ UNCHANGED <<pc, failed, notices, storage_w, weather_src, hh_src, cap, loadVars,
                   sink, daily, stress_daily, storage_d, weather, hh, cap_feat, df,
                   fitVars, forecastVars>>

NextDerive == DeriveStep

SpecDerive == InitDerive /\ [][NextDerive]_vars

NextForecast == ForecastStressStep \/ ForecastVolStep

SpecForecast == InitForecast /\ [][NextForecast]_vars

NextCoverage == LoadNoticesStep \/ NextPanel

SpecCoverage == InitCoverage /\ [][NextCoverage]_vars

NextSink == UpsertRun \/ ProcessItem

SpecSink == InitSink /\ [][NextSink]_vars

SpecFit == InitFit /\ [][NextFit]_vars

(* --------------------- claims: interval expander ----------------------- *)
StressReturned == pc \in {"cap", "assemble", "done"} \/ failed = "assemble"

StressActed == StressReturned \/ failed = "stress"

\* the validity window of a notice, in instants: effective_at (posted_at when
\* absent) to end_at (effective_at when absent)
IsInstant(t) == t >= 0
WindowDefined(n) == IsInstant(n.effective_dt) \/ IsInstant(n.posted_dt)
WindowStart(n) == IF IsInstant(n.effective_dt) THEN n.effective_dt ELSE n.posted_dt
WindowEnd(n) == IF IsInstant(n.end_dt) THEN n.end_dt ELSE WindowStart(n)

\* day d lies in [floor_to_day(start), floor_to_day(end)]
WindowContains(n, d) ==
    /\ WindowDefined(n)
    /\ WindowStart(n) < (d + 1) * TicksPerDay
    /\ d * TicksPerDay <= WindowEnd(n)

Covering(d) == {i \in 1 .. Len(notices) : WindowContains(notices[i], d)}

\* C1: whenever the expander returns, a day is in its output iff the window of
\* at least one notice contains it, and the day's notice_active_count is the
\* number of distinct notice ids among the notices whose window contains it.
C1_ActiveCountIsDistinctCoveringIds ==
    StressReturned =>
        /\ DOMAIN stress_daily.rows \subseteq Days
        /\ \A d \in Days :
            /\ (d \in DOMAIN stress_daily.rows) <=> (Covering(d) # {})
            /\ Covering(d) # {} =>
                  stress_daily.rows[d].notice_active_count
                      = Cardinality({notices[i].notice_id : i \in Covering(d)})

\* two days are ticked, one of them by two notices with distinct ids
C1_Witness ==
    /\ StressReturned
    /\ \E d \in DOMAIN stress_daily.rows :
          /\ stress_daily.rows[d].notice_active_count = 2
          /\ Cardinality(DOMAIN stress_daily.rows) = 2

TicksOf(i) == {r.date : r \in {x \in daily : x.row = i}} \ {NaT}

\* C2: a notice with no end_at ticks exactly one day, the day of its
\* effective_at, and the day of its posted_at when effective_at is missing too.
C2_OpenEndedTicksOneDay ==
    StressReturned =>
        \A i \in 1 .. Len(notices) :
            ~IsInstant(notices[i].end_dt) =>
                \E d \in Days :
                    /\ TicksOf(i) = {d}
                    /\ d * TicksPerDay <= WindowStart(notices[i])
                    /\ WindowStart(notices[i]) < (d + 1) * TicksPerDay

\* a notice with neither end_at nor effective_at ticks the day of posted_at
C2_Witness ==
    /\ StressReturned
    /\ \E i \in 1 .. Len(notices) :
          /\ notices[i].end_dt = NaT
          /\ notices[i].effective_dt = NaT
          /\ IsInstant(notices[i].posted_dt)
          /\ Cardinality(TicksOf(i)) = 1

\* C4: a notice none of whose effective_at and posted_at parses contributes no
\* tick, the expander does not raise, and the other notices are expanded as
\* usual.
C4_MalformedNoticeExcludedWithoutRaising ==
    StressActed =>
        /\ stress_daily.status = "ok"
        /\ \A d \in Days : (d \in DOMAIN stress_daily.rows) <=> (Covering(d) # {})

(* -------------------- claims: notice criticality ----------------------- *)
\* the notice is critical: the flag is true, or is the spider's "Y" marker
IsCritical(n) == n.critical \in {"True", "Y"}

\* C3: on every ticked day critical_active is true iff a notice ticking that
\* day is critical; a missing flag and the marker "N" do not make a day
\* critical.
C3_CriticalActiveIffCriticalNotice ==
    StressReturned =>
        \A d \in DOMAIN stress_daily.rows :
            stress_daily.rows[d].critical_active
                <=> (\E i \in Covering(d) : IsCritical(notices[i]))

(* --------------------- claims: frequency aligner ----------------------- *)
StorageReturned ==
    pc \in {"stress", "cap", "assemble", "done"} \/ failed \in {"stress", "assemble"}

\* the input rows that carry an observation: a date and a value
Observations == {i \in 1 .. Len(storage_w) :
                    storage_w[i].date # NaT /\ storage_w[i].working_gas_bcf # NaN}

ObservedBy(d) == {i \in Observations : storage_w[i].date <= d}

InputDates == {storage_w[i].date : i \in 1 .. Len(storage_w)} \ {NaT}

\* C5: for a non-empty input the output has exactly one row for each day of
\* [min(date), max(date)] and none outside, each carrying the value of the
\* latest observation dated at or before that day (none when there is no such
\* observation); for an empty input the output is empty.
C5_DailyForwardFill ==
    StorageReturned =>
        LET out == storage_d.rows
        IN IF Len(storage_w) = 0 THEN Len(out) = 0
           ELSE /\ Len(out) = SetMax(InputDates) - SetMin(InputDates) + 1
                /\ \A k \in 1 .. Len(out) :
                      /\ out[k].date = SetMin(InputDates) + k - 1
                      /\ IF ObservedBy(out[k].date) = {}
                         THEN out[k].working_gas_bcf = NaN
                         ELSE \E i \in ObservedBy(out[k].date) :
                                 /\ \A j \in ObservedBy(out[k].date) :
                                       storage_w[j].date <= storage_w[i].date
                                 /\ out[k].working_gas_bcf = storage_w[i].working_gas_bcf

\* a day between two observations carries the earlier one's value, not the
\* later one's
C5_Witness ==
    /\ StorageReturned
    /\ \E k \in 1 .. Len(storage_d.rows) :
          /\ storage_d.rows[k].date \notin InputDates
          /\ storage_d.rows[k].working_gas_bcf # NaN
          /\ storage_d.rows[k].working_gas_bcf # storage_d.rows[Len(storage_d.rows)].working_gas_bcf

(* ------------------------ claims: panel builder ------------------------ *)
PanelReturned == pc = "done"

PanelDates == {df.rows[k].date : k \in 1 .. Len(df.rows)}

WeatherDates == {weather_src[i].date : i \in 1 .. Len(weather_src)} \ {NaT}

\* C6: the returned panel has no two rows with the same date and its dates
\* are strictly ascending, whatever the order of the rows of the sources.
C6_PanelStrictlyAscending ==
    PanelReturned =>
        \A i, j \in 1 .. Len(df.rows) : i < j => df.rows[i].date < df.rows[j].date

\* a panel of several rows built from weather rows that came in descending order
C6_Witness ==
    /\ PanelReturned
    /\ Len(df.rows) >= 2
    /\ \E i, j \in 1 .. Len(weather_src) :
          i < j /\ weather_src[j].date # NaT /\ weather_src[i].date > weather_src[j].date

PriceDates == {hh_src[i].date : i \in 1 .. Len(hh_src)} \ {NaT}

\* C7: the dates of the returned panel are the valid dates of the weather
\* series, one row per date; a date no price row matches keeps its row, with
\* a null price, and no date absent from weather is added.
C7_PanelCalendarIsWeather ==
    PanelReturned =>
        /\ PanelDates = WeatherDates
        /\ Len(df.rows) = Cardinality(WeatherDates)
        /\ \A k \in 1 .. Len(df.rows) :
              df.rows[k].date \notin PriceDates => df.rows[k].henry_hub_usd_per_mmbtu = NaN

\* a panel with a date the price source matches and a date it does not, while
\* the price source has a date that weather lacks
C7_Witness ==
    /\ PanelReturned
    /\ \E k \in 1 .. Len(df.rows) : df.rows[k].henry_hub_usd_per_mmbtu = NaN
    /\ \E k \in 1 .. Len(df.rows) : df.rows[k].henry_hub_usd_per_mmbtu # NaN
    /\ PriceDates \ WeatherDates # {}

\* C8: every panel date that no notice's window covers has notice_active_count,
\* critical_active and stress_event equal to zero, and every covered date
\* carries the values of the stress signal.
C8_StressFilledWithZero ==
    PanelReturned =>
        \A k \in 1 .. Len(df.rows) :
            LET r == df.rows[k]
            IN IF Covering(r.date) = {}
               THEN /\ r.notice_active_count = 0
                    /\ r.critical_active = 0
                    /\ r.stress_event = 0
               ELSE /\ r.date \in DOMAIN stress_daily.rows
                    /\ r.notice_active_count = stress_daily.rows[r.date].notice_active_count
                    /\ r.critical_active = (IF stress_daily.rows[r.date].critical_active THEN 1 ELSE 0)
                    /\ r.stress_event = stress_daily.rows[r.date].stress_event

\* the end-to-end scenario: stress_event is 1 on the three days of the notice
\* and 0 on the two days after it
C8_Witness ==
    /\ PanelReturned
    /\ notices = ScenarioNotices
    /\ [k \in 1 .. Len(df.rows) |-> df.rows[k].stress_event] = <<1, 1, 1, 0, 0>>

CapacityDates == {cap_feat[j].date : j \in 1 .. Len(cap_feat)}

\* C9 as claimed: every panel date without a matching capacity-aggregate row
\* has all_qty_avail_median filled with zero.
C9_CapacityFilledWithZero ==
    PanelReturned =>
        \A k \in 1 .. Len(df.rows) :
            df.rows[k].date \notin CapacityDates => df.rows[k].all_qty_avail_median = 0

\* C9 as amended: every panel date without a matching capacity-aggregate row
\* has a null all_qty_avail_median; only the stress columns are zero-filled.
C9_CapacityLeftNull ==
    PanelReturned =>
        \A k \in 1 .. Len(df.rows) :
            df.rows[k].date \notin CapacityDates => df.rows[k].all_qty_avail_median = NaN

\* a panel with a date that has a capacity median and a date that has none
C9_Witness ==
    /\ PanelReturned
    /\ \E k \in 1 .. Len(df.rows) :
          df.rows[k].date \in CapacityDates /\ df.rows[k].all_qty_avail_median # NaN
    /\ \E k \in 1 .. Len(df.rows) : df.rows[k].date \notin CapacityDates

ColumnIsNull(c) == c \in df.columns /\ \A k \in 1 .. Len(df.rows) : df.rows[k][c] = NaN

\* C10: build_model_frame does not raise on a source that loaded empty; the
\* columns of an empty price, storage, notice or capacity source are present
\* and null on every row, and an empty weather source gives an empty panel.
C10_EmptySourcesTolerated ==
    /\ failed = "weather" => Len(weather_src) > 0
    /\ failed = "hh" => Len(hh_src) > 0
    /\ failed = "storage" => Len(storage_w) > 0
    /\ failed = "stress" => Len(notices) > 0
    /\ PanelReturned =>
          /\ Len(weather_src) = 0 => Len(df.rows) = 0
          /\ Len(hh_src) = 0 => ColumnIsNull("henry_hub_usd_per_mmbtu")
          /\ Len(storage_w) = 0 => ColumnIsNull("working_gas_bcf")
          /\ Len(notices) = 0 => \A c \in StressColumns : ColumnIsNull(c)
          /\ Len(cap) = 0 => ColumnIsNull("all_qty_avail_median")

(* ----------------------- claims: deduplication ------------------------- *)
\* the last row of a source, in the order of the source, that carries the date
LastWithDate(frame, d) ==
    SetMax({i \in 1 .. Len(frame) : frame[i].date = d})

\* C11: duplicated dates in a source do not make build_model_frame fail, the
\* returned panel has one row per date, and the row of a duplicated weather
\* or price date carries the values of its last occurrence in the source.
C11_DuplicateDatesKeepLast ==
    /\ failed = "storage" => ~HasDuplicateDates(DropNaDate(storage_w))
    /\ PanelReturned =>
          /\ Len(df.rows) = Cardinality(PanelDates)
          /\ \A k \in 1 .. Len(df.rows) :
                /\ df.rows[k].hdd_mean = LastWithDate(weather_src, df.rows[k].date)
                /\ df.rows[k].date \in PriceDates =>
                      df.rows[k].henry_hub_usd_per_mmbtu
                          = LastWithDate(hh_src, df.rows[k].date)

(* ------------------- claims: derived price features -------------------- *)
\* C12: hh_log is null on every row whose price is missing or not positive
\* and is the logarithm of the price otherwise; hh_ret is hh_log of the row
\* minus hh_log of the row before it in ascending date order, null on the
\* first row and wherever one of the two logarithms is null.
C12_DerivedPriceFeatures ==
    PanelReturned =>
        \A k \in 1 .. Len(df.rows) :
            LET r == df.rows[k]
            IN /\ (r.hh_log = NaN) <=>
                      (r.henry_hub_usd_per_mmbtu = NaN \/ r.henry_hub_usd_per_mmbtu <= 0)
               /\ r.hh_log # NaN => 2 ^ r.hh_log = r.henry_hub_usd_per_mmbtu
               /\ k = 1 => r.hh_ret = NaN
               /\ k > 1 =>
                     /\ df.rows[k - 1].date < r.date
                     /\ r.hh_ret = (IF r.hh_log = NaN \/ df.rows[k - 1].hh_log = NaN
                                    THEN NaN
                                    ELSE r.hh_log - df.rows[k - 1].hh_log)

\* weather rows that came in descending order, a row with a price that is not
\* positive, and a later row with a return that is not zero
C12_Witness ==
    /\ PanelReturned
    /\ \E i, j \in 1 .. Len(weather_src) : i < j /\ weather_src[i].date > weather_src[j].date
    /\ \E k \in 1 .. Len(df.rows) :
          df.rows[k].henry_hub_usd_per_mmbtu # NaN /\ df.rows[k].henry_hub_usd_per_mmbtu <= 0
    /\ \E k \in 2 .. Len(df.rows) : df.rows[k].hh_ret \notin {NaN, 0}

(* ----------------------------- fit routines ---------------------------- *)
FitLagged == pc \in {"stress_dropna", "vol_dropna"}
FitReturned == pc = "fitted"

\* the row values a panel of the routine is drawn from
FitRowsOf(r) == IF r = "stress" THEN StressFitRows ELSE VolFitRows

\* the lagged frame the routine computes from a panel
LaggedOf(r, panel) ==
    IF r = "stress" THEN StressLagged(panel) ELSE VolLagged(VolDerived(panel))

\* the panel with the rows dated t = the date of row k or later observed as r
ObservedFrom(panel, k, r) ==
    [panel EXCEPT !.rows = [j \in DOMAIN panel.rows |->
        IF j < k THEN panel.rows[j] ELSE [r EXCEPT !.date = panel.rows[j].date]]]

Sign(x) == IF x > 0 THEN 1 ELSE IF x < 0 THEN 0 - 1 ELSE 0

\* two standardized values dev / sqrt(V) are the same number
ZValueEq(a, b) ==
    IF a.kind = "nan" \/ b.kind = "nan" THEN a.kind = b.kind
    ELSE IF a.dev = 0 \/ b.dev = 0 THEN a.dev = b.dev
    ELSE IF a.std.kind = "tiny" \/ b.std.kind = "tiny" THEN a = b
    ELSE /\ a.std.kind = "sd" /\ b.std.kind = "sd"
         /\ Sign(a.dev) = Sign(b.dev)
         /\ a.dev * a.dev * b.std.V = b.dev * b.dev * a.std.V

SameValue(c, a, b) == IF c \in ZColumns THEN ZValueEq(a, b) ELSE a = b

\* C13: in both fit routines, every predictor value on the training row dated
\* t is computed only from panel rows dated strictly before t: observing other
\* values on day t or later leaves every predictor of row t as it is
C13_NoLookAhead ==
    FitLagged =>
        \A k \in DOMAIN df.rows : \A r \in FitRowsOf(routine) :
            \A c \in Range(feature_cols) :
                SameValue(c, d_fit[c][k],
                          LaggedOf(routine, ObservedFrom(df, k, r))[c][k])

\* C13 for the stress-event routine alone
C13_StressNoLookAhead == routine = "stress" => C13_NoLookAhead

\* C14: in every fit routine each predictor column is shifted by one period
\* first and standardized only afterwards: whatever has been standardized so
\* far is one of the lagged columns
C14_LagBeforeStandardize == standardized \subseteq Range(feature_cols)

\* C14 for the stress-event routine alone
C14_StressLagBeforeStandardize == routine = "stress" => C14_LagBeforeStandardize

FitDropped == pc \in {"stress_standardize", "vol_standardize", "fitted"}

\* a fit routine raises only for a missing column, never for a null value
FitRaisesForColumns ==
    IF routine = "stress"
    THEN "stress_event" \notin df.columns \/ Len(StressPredictors(df.columns)) = 0
    ELSE FitVolRaises(df)

\* C15: after lagging, every row with a null in a required feature or a null
\* target is dropped rather than causing a failure: the training matrix has
\* no null and does not contain the first row of the panel
C15_TrainingMatrixWithoutNull ==
    /\ pc = "raised" /\ failed = "fit" => FitRaisesForColumns
    /\ FitDropped =>
          /\ \A c \in {"y"} \cup Range(feature_cols) :
                \A k \in DOMAIN d_fit[c] : ~IsNullAt(d_fit, c, k)
          /\ \A k \in DOMAIN d_fit["date"] :
                /\ d_fit["date"][k] \in {df.rows[j].date : j \in DOMAIN df.rows}
                /\ d_fit["date"][k] # SetMin({df.rows[j].date : j \in DOMAIN df.rows})
    /\ FitReturned =>
          /\ \A k \in DOMAIN y_obs : y_obs[k] # NaN
          /\ \A c \in DOMAIN Xs : \A k \in DOMAIN Xs[c] :
                /\ Xs[c][k].kind # "nan"
                /\ Xs[c][k].kind = "raw" => Xs[c][k].dev # NaN
          /\ \A c \in DOMAIN Xs : Len(Xs[c]) = Len(y_obs)

\* the volatility routine returned a training matrix with a row, after
\* dropping the first row and a later row of the panel
C15_Witness ==
    /\ FitReturned /\ routine = "vol"
    /\ Len(y_obs) >= 1
    /\ Len(y_obs) < Len(df.rows) - 1

\* C16: every scaler a fit routine stores has std floored to 1.0 whenever the
\* standard deviation of the feature is zero, near zero (not above eps) or
\* undefined: a stored std is 1.0 or above eps, never 0
C16_ScalerStdFloored ==
    FitReturned =>
        \A c \in DOMAIN scalers :
            /\ ~StdIsZero(scalers[c].std)
            /\ ~StdIsNaN(scalers[c].std)
            /\ scalers[c].std = One \/ StdAboveEps(scalers[c].std)

\* C16 for the stress-event routine alone
C16_StressScalerStdFloored == routine = "stress" => C16_ScalerStdFloored

\* all values of a column are the same number
Constant(values) ==
    /\ Len(values) > 0
    /\ \A k \in DOMAIN values : values[k] # NaN /\ values[k] = values[1]

ConstantZ(zs) ==
    /\ Len(zs) > 0
    /\ \A k \in DOMAIN zs : zs[k].kind # "nan" /\ ZValueEq(zs[k], zs[1])

\* a standardized value that is zero: no NaN, no division by zero
ZeroZ(z) == z.kind = "z" /\ z.dev = 0 /\ ~StdIsZero(z.std)

\* C17: standardizing a constant feature gives a z-score vector that is zero
\* in every position, never NaN or infinite, in zscore (stress-event routine)
\* and in _zscore_series (volatility routine: storage_z and the design vectors)
C17_ConstantFeatureZero ==
    /\ FitReturned =>
          \A c \in DOMAIN Xs \ {"op"} :
              (IF DesignColumn(c) \in ZColumns THEN ConstantZ(d_fit[DesignColumn(c)])
               ELSE Constant(d_fit[DesignColumn(c)]))
              => \A k \in DOMAIN Xs[c] : ZeroZ(Xs[c][k])
    /\ routine = "vol" /\ pc = "vol_lag" =>
          (Constant(Column(df.rows, "working_gas_bcf"))
           => \A k \in DOMAIN d_fit["storage_z"] : ZeroZ(d_fit["storage_z"][k]))

\* C17 for the stress-event routine alone
C17_StressConstantFeatureZero == routine = "stress" => C17_ConstantFeatureZero

(* ---------------------------- forecast engine -------------------------- *)
ScalersReused == pc = "reused"

\* the standardized value the fit routine assigns to v in a training column:
\* zscore floors the standard deviation, _zscore_series returns zeros for a
\* standard deviation of 0 or NaN
FitZ(r, values, v) ==
    IF r = "stress"
    THEN Standardize(v, NanMean(values),
                     IF StdAboveEps(NanStd(values)) THEN NanStd(values) ELSE One)
    ELSE IF StdIsZero(NanStd(values)) \/ StdIsNaN(NanStd(values)) THEN ZZero
    ELSE Standardize(v, NanMean(values), NanStd(values))

ForecastReturned == pc = "forecast_done"

\* the numbers of a Scaler, with the defaults of a missing key
MeanNumber(sc) == IF "mean" \in DOMAIN sc THEN sc.mean.S \div sc.mean.n ELSE 0
StdNumber(sc) ==
    IF "std" \notin DOMAIN sc THEN 1
    ELSE IF sc.std.kind = "nan" THEN NaN
    ELSE Sqrt(sc.std.V) \div sc.std.n

\* the value of a feature in the predictor: standardized with the Scaler of
\* the feature when there is one, raw otherwise
PredictorValue(f) ==
    IF f \notin DOMAIN scalers THEN x_raw[f]
    ELSE IF StdNumber(scalers[f]) \in {0, NaN} THEN 0
    ELSE IF x_raw[f] = NaN THEN NaN
    ELSE (x_raw[f] - MeanNumber(scalers[f])) \div StdNumber(scalers[f])

\* what a feature adds to the predictor of draw d
Term(f, d) ==
    IF f \in DOMAIN x_raw /\ CoefName(f) \in DOMAIN post
    THEN Mul(post[CoefName(f)][d], PredictorValue(f))
    ELSE 0

\* C19: for each posterior draw d the linear predictor is intercept_d plus,
\* over exactly the input features with a coefficient coef_prefix + feature in
\* the draws, coef_d times the feature value, standardized with the Scaler
\* of the feature when one exists and raw otherwise; a feature without a
\* coefficient adds nothing and raises nothing (both forecast functions)
C19_LinearPredictor ==
    ForecastReturned =>
        /\ DOMAIN logit_p = DOMAIN post["a"]
        /\ DOMAIN feat_val = {f \in DOMAIN x_raw : CoefName(f) \in DOMAIN post}
        /\ \A d \in DOMAIN logit_p :
              logit_p[d] = Add(Add(post["a"][d], Term("hdd", d)), Term("storage", d))

\* a forecast for a point with both features, where only hdd has a
\* coefficient and a Scaler with a standard deviation that is used
C19_Witness ==
    /\ ForecastReturned
    /\ DOMAIN x_raw = ForecastFeatures
    /\ CoefName("hdd") \in DOMAIN post /\ CoefName("storage") \notin DOMAIN post
    /\ "hdd" \in DOMAIN scalers /\ StdNumber(scalers["hdd"]) = 2
    /\ MeanNumber(scalers["hdd"]) = 2
    /\ \E d \in DOMAIN logit_p : logit_p[d] \notin {NaN, post["a"][d]}

\* C20: forecast_stress_event_prob returns one p_d = sigmoid(predictor_d) per
\* posterior draw and prob_alert, the fraction of draws with p_d strictly
\* above the threshold; with all intercepts 0 and no matching coefficient
\* every p_d is 0.5 and prob_alert at threshold 0.3 is 1.0
C20_LogisticForecast ==
    ForecastReturned /\ routine = "stress" =>
        /\ DOMAIN samp = DOMAIN post["a"]
        /\ \A d \in DOMAIN samp :
              /\ samp[d] = Sigmoid(logit_p[d])
              /\ logit_p[d] # NaN =>
                    /\ samp[d] \in 0 .. 1000
                    /\ samp[d] + Sigmoid(0 - logit_p[d]) = 1000
                    /\ samp[d] > 500 <=> logit_p[d] > 0
                    /\ samp[d] = 500 <=> logit_p[d] = 0
        /\ prob.den = Len(samp)
        /\ prob.num = Cardinality({d \in DOMAIN samp :
                                      samp[d] # NaN /\ samp[d] > prob_threshold})
        /\ ((\A d \in DOMAIN post["a"] : post["a"][d] = 0)
               /\ (\A f \in DOMAIN x_raw : CoefName(f) \notin DOMAIN post))
              => /\ \A d \in DOMAIN samp : samp[d] = 500
                 /\ prob_threshold = 300 => prob.num = prob.den

\* a forecast of two draws, one of them exactly at the threshold and one
\* above it
C20_Witness ==
    /\ ForecastReturned /\ routine = "stress"
    /\ Len(samp) = 2
    /\ \E d \in DOMAIN samp : samp[d] = prob_threshold
    /\ prob = [num |-> 1, den |-> 2]

\* C21: forecast_vol_risk returns one predictive sample per draw,
\* sample_d = mu_d + scale_d * t_d, with t_d drawn with tail parameter
\* max(nu_d, 2.1), and prob_exceed, the fraction of samples strictly above the
\* threshold; when every scale draw is 0 the samples are the mu_d whatever t
\* is, and prob_exceed is 1.0 when every mu_d is above the threshold
C21_HeavyTailedForecast ==
    ForecastReturned /\ routine = "vol" =>
        /\ DOMAIN samp = DOMAIN post["a"]
        /\ DOMAIN t_samp = DOMAIN post["a"]
        /\ \A d \in DOMAIN samp :
              /\ nu[d] >= MinNu /\ nu[d] >= post["nu"][d]
              /\ nu[d] \in {MinNu, post["nu"][d]}
              /\ logit_p[d] # NaN => samp[d] = logit_p[d] + post["sigma"][d] * t_samp[d]
              /\ post["sigma"][d] = 0 => samp[d] = logit_p[d]
        /\ prob.den = Len(samp)
        /\ prob.num = Cardinality({d \in DOMAIN samp :
                                      samp[d] # NaN /\ samp[d] > prob_threshold})
        /\ (\A d \in DOMAIN samp :
                post["sigma"][d] = 0 /\ logit_p[d] # NaN /\ logit_p[d] > prob_threshold)
              => prob.num = prob.den

\* a forecast of two draws with scale 1 and a tail parameter below 2.1: the
\* two values of t differ, one sample is exactly at the threshold and the
\* other one above it
C21_Witness ==
    /\ ForecastReturned /\ routine = "vol"
    /\ Len(samp) = 2
    /\ post["sigma"][1] = 1 /\ post["nu"][1] < MinNu
    /\ t_samp[1] # t_samp[2]
    /\ \E d \in DOMAIN samp : samp[d] = prob_threshold
    /\ prob = [num |-> 1, den |-> 2]

EvaluatedAgain == ForecastReturned /\ first_eval # <<>>

\* C22: the forecasts are pure functions of their explicit inputs: a second
\* evaluation with identical inputs returns what the first one returned
C22_ForecastDeterministic ==
    EvaluatedAgain => samp = first_eval.samp /\ prob = first_eval.prob

\* C22 for the logistic forecast alone
C22_LogisticForecastDeterministic == routine = "stress" => C22_ForecastDeterministic

(* ------------------------ derive_forecast_inputs ----------------------- *)
DeriveReturned == pc = "derived"
DeriveDone == pc \in {"derived", "raised"}

\* C23: derive_forecast_inputs raises whenever the panel has fewer rows than
\* its rolling windows need (3 rows for the 3-day means, the storage window
\* for the storage baseline); whenever it returns, op, persist, hdd and
\* storage are defined numbers
C23_InsufficientHistoryRaises ==
    DeriveDone =>
        /\ Len(df.rows) < DeriveWindow \/ Len(df.rows) < StorageWindow => pc = "raised"
        /\ DeriveReturned => \A f \in DOMAIN x_raw : x_raw[f].kind # "nan"

(* ------------------ claims: stress_event invariant --------------------- *)
\* C24: stress_event is 1 iff critical_active is true for that date, on
\* every day of the daily stress signal and in every row of the returned
\* panel, the rows zero-filled for dates without notices included.
C24_StressEventIffCriticalActive ==
    /\ StressReturned =>
           \A d \in DOMAIN stress_daily.rows :
               stress_daily.rows[d].stress_event = 1
                   <=> stress_daily.rows[d].critical_active
    /\ PanelReturned =>
           \A k \in 1 .. Len(df.rows) :
               /\ df.rows[k].stress_event \in {0, 1}
               /\ df.rows[k].stress_event = 1 <=> df.rows[k].critical_active = 1
               /\ df.rows[k].date \in DOMAIN stress_daily.rows =>
                      (df.rows[k].stress_event = 1
                          <=> stress_daily.rows[df.rows[k].date].critical_active)

\* a returned panel with a critical day, a ticked day that is not critical
\* and a zero-filled day without notices
C24_Witness ==
    /\ PanelReturned
    /\ \E k \in 1 .. Len(df.rows) :
           df.rows[k].stress_event = 1 /\ df.rows[k].critical_active = 1
    /\ \E k \in 1 .. Len(df.rows) :
           /\ df.rows[k].date \in DOMAIN stress_daily.rows
           /\ df.rows[k].stress_event = 0
    /\ \E k \in 1 .. Len(df.rows) :
           /\ df.rows[k].date \notin DOMAIN stress_daily.rows
           /\ df.rows[k].stress_event = 0 /\ df.rows[k].critical_active = 0

(* ---------------- claims: training and serving inputs ------------------ *)
\* the mean m is the number v (a null for a null)
MeanIsNumber(m, v, scale) ==
    IF v = NaN \/ m.kind = "nan" THEN v = NaN /\ m.kind = "nan"
    ELSE m.kind = "mean" /\ scale * m.S = m.n * v

\* the derived storage input is the standardized value z
InputIsZ(input, z) ==
    IF input.kind = "nan" \/ z.kind = "nan" THEN input.kind = z.kind
    ELSE LET num == input.S * input.mean.n - input.mean.S
         IN /\ input.kind = "minus"
            /\ Sign(num) = Sign(z.dev)
            /\ IF z.std.kind = "sd"
               THEN num * num * z.n * z.n * z.std.V
                        = z.dev * z.dev * z.std.n * z.std.n * input.mean.n * input.mean.n
               ELSE z.std.kind = "one" /\ num * z.n = z.dev * input.mean.n

\* C25: each input derive_forecast_inputs returns is the quantity that
\* fit_vol_risk_model uses as the regressor of the same-named coefficient,
\* taken on the latest row of the panel: op is op_stress, persist is
\* stress_days_7d, hdd is hdd_5d and storage is storage_z.
C25_DerivedInputsAreTrainingRegressors ==
    DeriveReturned =>
        LET trained == VolDerived(df)
            last == Len(df.rows)
        IN /\ MeanIsNumber(x_raw.op, trained["op_stress"][last], 1)
           /\ MeanIsNumber(x_raw.persist, trained["stress_days_7d"][last], 1)
           /\ MeanIsNumber(x_raw.hdd, trained["hdd_5d"][last], RollScale)
           /\ InputIsZ(x_raw.storage, trained["storage_z"][last])

\* each input taken alone
C25_OpIsOpStress ==
    DeriveReturned => MeanIsNumber(x_raw.op, VolDerived(df)["op_stress"][Len(df.rows)], 1)
C25_PersistIsStressDays ==
    DeriveReturned =>
        MeanIsNumber(x_raw.persist, VolDerived(df)["stress_days_7d"][Len(df.rows)], 1)
C25_HddIsHdd5d ==
    DeriveReturned =>
        MeanIsNumber(x_raw.hdd, VolDerived(df)["hdd_5d"][Len(df.rows)], RollScale)
C25_StorageIsStorageZ ==
    DeriveReturned => InputIsZ(x_raw.storage, VolDerived(df)["storage_z"][Len(df.rows)])

(* ------------------ claims: end-to-end notice coverage ----------------- *)
StoredCovering(d) == {i \in 1 .. Len(stored) : WindowContains(stored[i], d)}

\* C26: for every date of the panel build_model_frame returns,
\* notice_active_count counts every stored notice whose validity window
\* covers that date, a notice posted before cfg.start included.
C26_PanelCountsStoredNotices ==
    PanelReturned /\ cfg # NoCfg =>
        \A k \in 1 .. Len(df.rows) :
            df.rows[k].notice_active_count
                = Cardinality({stored[i].notice_id : i \in StoredCovering(df.rows[k].date)})

\* the same count over the notices posted from cfg.start to cfg.end
C26_PanelCountsLoadedNotices ==
    PanelReturned /\ cfg # NoCfg =>
        \A k \in 1 .. Len(df.rows) :
            df.rows[k].notice_active_count
                = Cardinality({stored[i].notice_id :
                                  i \in {j \in StoredCovering(df.rows[k].date) :
                                            PostedInRange(stored[j], cfg.start, cfg.end)}})

\* a returned panel with a date that a stored notice posted before cfg.start
\* covers, and on which the panel counts no notice
C26_MissedNoticePostedBeforeStart ==
    /\ PanelReturned /\ cfg # NoCfg
    /\ \E k \in 1 .. Len(df.rows) :
           /\ df.rows[k].notice_active_count = 0
           /\ \E i \in StoredCovering(df.rows[k].date) :
                  /\ stored[i].posted_dt < Midnight(cfg.start)
                  /\ stored[i].effective_dt = NaT

(* ---------------------- claims: inverted window ------------------------ *)
\* the end_at day of the notice is earlier than its effective_at day
Inverted(n) == StartDate(n) # NaT /\ EndDate(n) # NaT /\ EndDate(n) < StartDate(n)

\* the frame without its i-th row
Without(frame, i) == SubSeq(frame, 1, i - 1) \o SubSeq(frame, i + 1, Len(frame))

StressDone == StressReturned \/ failed = "stress"

\* C27: a notice whose end_at day is earlier than its effective_at day ticks
\* no day and causes no failure: the outcome of the expander, signal or
\* failure, is the one it has on the frame without that notice.
C27_InvertedWindowAsIfAbsent ==
    StressDone =>
        \A i \in 1 .. Len(notices) :
            Inverted(notices[i]) =>
                /\ TicksOf(i) = {}
                /\ stress_daily = BuildStressFromNotices(Without(notices, i))

\* the same, for the frames in which the other notices carry a critical flag
C27_InvertedWindowAmongFlagged ==
    StressDone =>
        \A i \in 1 .. Len(notices) :
            Inverted(notices[i]) /\ ~CriticalColumnAbsent(Without(notices, i)) =>
                /\ TicksOf(i) = {}
                /\ stress_daily = BuildStressFromNotices(Without(notices, i))

(* ------------------ claims: undefined forecast input ------------------- *)
\* the features of x with a coefficient whose value is undefined
UndefinedInputs == {f \in Used(x_raw, post) : x_raw[f] = NaN}

\* the scaler of the feature has a standard deviation of 0 or NaN
DegenerateScaler(f) ==
    /\ f \in DOMAIN scalers
    /\ StdIsZero(ScalerStd(scalers[f])) \/ StdIsNaN(ScalerStd(scalers[f]))

\* C28: when an input feature with a matching coefficient is undefined, the
\* forecast returns, every draw's predictor and sample is undefined, no draw
\* is counted above the threshold and the returned probability is 0.0.
C28_UndefinedInputGivesZero ==
    ForecastReturned /\ UndefinedInputs # {} =>
        /\ \A d \in DOMAIN logit_p : logit_p[d] = NaN /\ samp[d] = NaN
        /\ prob.num = 0

\* the same, when no undefined input has a scaler of standard deviation 0 or NaN
C28_UndefinedInputUnscaledGivesZero ==
    ForecastReturned /\ UndefinedInputs # {}
                     /\ (\A f \in UndefinedInputs : ~DegenerateScaler(f)) =>
        /\ \A d \in DOMAIN logit_p : logit_p[d] = NaN /\ samp[d] = NaN
        /\ prob.num = 0

(* ------------------------ claims: upsert sinks ------------------------- *)
\* C29: after any sequence of runs of an upsert sink, with overlapping or
\* repeated records, the collection holds at most one document per key and
\* every key ever written has a document.
C29_OneDocumentPerKey ==
    /\ \A d1, d2 \in collection : IndexKey(d1.key) = IndexKey(d2.key) => d1 = d2
    /\ \A key \in written : \E doc \in collection : IndexKey(doc.key) = key

\* a key written twice with different values holds the later value, next to
\* another key
C29_Witness ==
    /\ sink \in {"storage", "hh_spot", "weather"}
    /\ Cardinality(collection) = 2
    /\ Len(last_write.doc) = 2
    /\ SinkFilter(sink, last_write.doc[1]) = SinkFilter(sink, last_write.doc[2])
    /\ last_write.doc[1].value # last_write.doc[2].value
    /\ \E doc \in collection :
           /\ doc.key = SinkFilter(sink, last_write.doc[2])
           /\ doc.value = last_write.doc[2].value

\* C30: process_item inserts every item lacking a unique field as a new
\* document, returns the item and never fails, for any sequence of such items.
C30_MissingFieldItemInserted ==
    sink = "items" /\ last_write # NoWrite /\ MissingFields(last_write.doc) # {} =>
        /\ last_write.outcome = "returned"
        /\ \E doc \in collection :
               /\ doc._id = Cardinality(collection)
               /\ doc.key = ItemKey(last_write.doc)

====
